---- MODULE Spec2Model ----
(***************************************************************************)
(* A model of the lyrics synchronisation engine of NewSync                 *)
(* (src/src/modules/lyrics/lyricsRenderer.js, class LyricsPlusRenderer):   *)
(* the timing correction pass, the per-frame activation / highlight /      *)
(* scroll decision, the pre-highlight derivation and the user-scroll       *)
(* override.                                                               *)
(*                                                                         *)
(* Eight specifications share the module:                                  *)
(*   SpecRetime  _retimingActiveTimings on bounded line sequences          *)
(*   SpecSync    renders, animation frames and visibility callbacks        *)
(*   SpecScroll  SpecSync on one song, with the user's scroll gestures     *)
(*   LiveScroll  gestures and timers, with the fairness of setTimeout      *)
(*   SpecDegenerate  the calls on fewer than 2 lines and on no timeline     *)
(*   SpecFetch   the lyrics manager: fetches in flight driving the renderer *)
(*   SpecPlayback  playback with a clock that only moves forward            *)
(*   SpecFlush   the pre-highlight derivation on bounded syllables         *)
(***************************************************************************)
EXTENDS Integers, Sequences, FiniteSets, TLC

VARIABLES
    rtIn,       \* SpecRetime: the rendered line elements, as handed to _retimingActiveTimings
    rtOut,      \* SpecRetime: the same elements after the call
    rtPhase,    \* SpecRetime: "render" while lines are appended, "done" after the call
    lr,         \* the LyricsPlusRenderer instance, its elements and its timers
    budget,     \* how many renders and user gestures the environment has made
    lm          \* the lyrics manager (lyricsManager.js) and its calls in flight

rtVars == <<rtIn, rtOut, rtPhase>>
vars == <<rtIn, rtOut, rtPhase, lr, budget, lm>>

Min(a, b) == IF a <= b THEN a ELSE b
Max(a, b) == IF a >= b THEN a ELSE b
Abs(a) == IF a >= 0 THEN a ELSE -a
\* A function over 1..n, evaluated once and kept as an array.
Array(f) == f \o <<>>

(***************************************************************************)
(* Timing correction.  dataset.startTime / dataset.endTime are decimal     *)
(* seconds.  The model counts time in fifths of a millisecond, so that     *)
(* toFixed(3) (rounding to a whole millisecond) is a real rounding and     *)
(* never meets a .5 tie.                                                   *)
(***************************************************************************)
Ms(n) == 5 * n

\* overlap >= 0.005 : five milliseconds
OverlapThreshold == Ms(5)
\* Math.min(0.5, gap) : half a second
MaxGapExtension == Ms(500)
\* Math.abs(new - original) > 0.001 : one millisecond
WriteThreshold == Ms(1)
\* nextStart - end >= 7.0 : a gap line is inserted between the two lines
GapLineThreshold == Ms(7000)

\* Number.prototype.toFixed(3) followed by parseFloat: the nearest millisecond
ToFixed3(x) == ((2 * x + Ms(1)) \div (2 * Ms(1))) * Ms(1)

\* A comparison of two doubles that are equal as decimals is decided by the
\* binary rounding of the operands (2 - 1.995 < 0.005 but 0.305 - 0.3 >= 0.005):
\* fp is the outcome the floating point arithmetic produces on such a tie.  In
\* the passes fp.overlap and fp.write are the sets of lines whose tie comes
\* out true.
FloatGeq(a, b, fp) == IF a = b THEN fp ELSE a > b
FloatGt(a, b, fp) == IF a = b THEN fp ELSE a > b

\* lines 473-484: the precursor pass marks line i when i overlaps i+1, i+1
\* overlaps i+2 and i does not overlap i+2
IsHandledByPrecursorPass(lines, i) ==
    /\ i + 2 <= Len(lines)
    /\ lines[i + 1].startTime < lines[i].endTime
    /\ lines[i + 2].startTime < lines[i + 1].endTime
    /\ lines[i + 2].startTime >= lines[i].endTime

\* lines 1129-1139 and 502-503: the element after line i is a gap line exactly
\* when updateDisplayMode found nextStart - end >= 7.0 and inserted one
IsFollowedByManualGap(lines, i) ==
    /\ i < Len(lines)
    /\ lines[i + 1].startTime - lines[i].endTime >= GapLineThreshold

\* Mutant of NewEndTime: the gap extension forgets Math.min(0.5, gap).
RECURSIVE NewEndTime_NoMin(_, _, _)
NewEndTime_NoMin(lines, i, fp) ==
    LET cur == lines[i] IN
    IF i >= Len(lines) THEN cur.endTime
    ELSE IF IsHandledByPrecursorPass(lines, i) THEN lines[i + 2].startTime
    ELSE LET nxt == lines[i + 1] IN
         IF nxt.startTime < cur.endTime
         THEN IF FloatGeq(cur.endTime - nxt.startTime, OverlapThreshold, i \in fp.overlap)
              THEN NewEndTime_NoMin(lines, i + 1, fp)
              ELSE cur.endTime
         ELSE LET gap == nxt.startTime - cur.endTime IN
              IF gap > 0 /\ ~IsFollowedByManualGap(lines, i)
              THEN cur.endTime + MaxGapExtension
              ELSE cur.endTime

\* Mutant of NewEndTime: the gap extension does not look for a gap line
\* after the element (the test of lines 502-503 is missing).
RECURSIVE NewEndTime_IgnoreGapLine(_, _, _)
NewEndTime_IgnoreGapLine(lines, i, fp) ==
    LET cur == lines[i] IN
    IF i >= Len(lines) THEN cur.endTime
    ELSE IF IsHandledByPrecursorPass(lines, i) THEN lines[i + 2].startTime
    ELSE LET nxt == lines[i + 1] IN
         IF nxt.startTime < cur.endTime
         THEN IF FloatGeq(cur.endTime - nxt.startTime, OverlapThreshold, i \in fp.overlap)
              THEN NewEndTime_IgnoreGapLine(lines, i + 1, fp)
              ELSE cur.endTime
         ELSE LET gap == nxt.startTime - cur.endTime IN
              IF gap > 0
              THEN cur.endTime + Min(MaxGapExtension, gap)
              ELSE cur.endTime

\* Mutant of NewEndTime: an overlapping line takes its successor's original
\* end (line 495 reads originalEndTime instead of newEndTime).
RECURSIVE NewEndTime_NextOriginal(_, _, _)
NewEndTime_NextOriginal(lines, i, fp) ==
    LET cur == lines[i] IN
    IF i >= Len(lines) THEN cur.endTime
    ELSE IF IsHandledByPrecursorPass(lines, i) THEN lines[i + 2].startTime
    ELSE LET nxt == lines[i + 1] IN
         IF nxt.startTime < cur.endTime
         THEN IF FloatGeq(cur.endTime - nxt.startTime, OverlapThreshold, i \in fp.overlap)
              THEN nxt.endTime
              ELSE cur.endTime
         ELSE LET gap == nxt.startTime - cur.endTime IN
              IF gap > 0 /\ ~IsFollowedByManualGap(lines, i)
              THEN cur.endTime + Min(MaxGapExtension, gap)
              ELSE cur.endTime

\* Mutant of NewEndTime: the trailing pass does not skip the lines the
\* precursor pass handled (line 489 is missing).
RECURSIVE NewEndTime_NoSkip(_, _, _)
NewEndTime_NoSkip(lines, i, fp) ==
    LET cur == lines[i] IN
    IF i >= Len(lines) THEN cur.endTime
    ELSE LET nxt == lines[i + 1] IN
         IF nxt.startTime < cur.endTime
         THEN IF FloatGeq(cur.endTime - nxt.startTime, OverlapThreshold, i \in fp.overlap)
              THEN NewEndTime_NoSkip(lines, i + 1, fp)
              ELSE cur.endTime
         ELSE LET gap == nxt.startTime - cur.endTime IN
              IF gap > 0 /\ ~IsFollowedByManualGap(lines, i)
              THEN cur.endTime + Min(MaxGapExtension, gap)
              ELSE cur.endTime

\* lines 473-509: newEndTime of line i after both passes.  The trailing pass
\* runs right to left, so line i reads the final newEndTime of line i+1.
RECURSIVE NewEndTime(_, _, _)
NewEndTime(lines, i, fp) ==
    LET cur == lines[i] IN
    IF i >= Len(lines) THEN cur.endTime
    ELSE IF IsHandledByPrecursorPass(lines, i) THEN lines[i + 2].startTime
    ELSE LET nxt == lines[i + 1] IN
         IF nxt.startTime < cur.endTime
         THEN IF FloatGeq(cur.endTime - nxt.startTime, OverlapThreshold, i \in fp.overlap)
              THEN NewEndTime(lines, i + 1, fp)
              ELSE cur.endTime
         ELSE LET gap == nxt.startTime - cur.endTime IN
              IF gap > 0 /\ ~IsFollowedByManualGap(lines, i)
              THEN cur.endTime + Min(MaxGapExtension, gap)
              ELSE cur.endTime

\* Mutant of WrittenLine: actualEndTime is taken from newEndTime (line 512
\* reads the wrong field).
WrittenLine_ActualFromNew(lines, i, fp) ==
    LET new == NewEndTime(lines, i, fp)
        orig == lines[i].endTime
    IN [startTime |-> lines[i].startTime,
        endTime |-> IF FloatGt(Abs(new - orig), WriteThreshold, i \in fp.write)
                    THEN ToFixed3(new) ELSE orig,
        actualEndTime |-> ToFixed3(new),
        newEndTime |-> new]

\* lines 511-516: what the call leaves in the element's dataset, and the
\* newEndTime of the line's linesData entry (line 469)
WrittenLine(lines, i, fp) ==
    LET new == NewEndTime(lines, i, fp)
        orig == lines[i].endTime
    IN [startTime |-> lines[i].startTime,
        endTime |-> IF FloatGt(Abs(new - orig), WriteThreshold, i \in fp.write)
                    THEN ToFixed3(new) ELSE orig,
        actualEndTime |-> ToFixed3(orig),
        newEndTime |-> new]

\* lines 460-517
RetimingActiveTimings(lines, fp) ==
    IF Len(lines) < 2 THEN lines
    ELSE Array([i \in 1..Len(lines) |-> WrittenLine(lines, i, fp)])


\* The ties the arithmetic of one call meets: the lines whose overlap is
\* exactly 5 ms, and the lines whose change is exactly 1 ms
OverlapTies(lines) ==
    {i \in 1..(Len(lines) - 1) : lines[i].endTime - lines[i + 1].startTime = OverlapThreshold}
WriteTies(lines, ov) ==
    {i \in 1..Len(lines) :
        Abs(NewEndTime(lines, i, [overlap |-> ov, write |-> {}]) - lines[i].endTime)
            = WriteThreshold}

(***************************************************************************)
(* The renderer object.  Times of the synchronisation loop are whole       *)
(* milliseconds (_startTimeMs, _endTimeMs, video.currentTime * 1000).      *)
(* Every render creates new elements, and _ensureElementIds gives the      *)
(* element at index i the id line-i.  A reference to a line element is     *)
(* <<Attached, i>> for the element at index i of the current document and  *)
(* <<Detached, i>> for one of an earlier render; NoLine is null.           *)
(***************************************************************************)
NoLine == <<0, 0>>
Attached == 1
Detached == 2

\* lines 1606-1607
ScrollLookAheadMs == 300
HighlightLookAheadMs == 190
\* line 1662: activeLinesForHighlighting.length < 3
MaxActiveLines == 3
\* line 1574: Math.abs(currentTime - this.lastTime) > 1000
SeekThresholdMs == 1000
\* line 2046: 30ms stagger per line
DelayIncrement == 30
\* line 412: 4-second delay before reverting
RevertDelayMs == 4000
\* line 2107: Math.abs(...) < 5
NearTargetPx == 5
\* lines 1145-1146: metadata start and end, relative to the last line's end
MetadataStartAfterMs == 500
MetadataEndAfterMs == 10000

(***************************************************************************)
(* Pre-highlight derivation (calculatePreHighlightDelay, lines 548-575).   *)
(* Widths are whole pixels; with w = px / em the code computes             *)
(*   total = w + 0.75, dist = (w <= 0.75) ? 0.1875 : w,                    *)
(*   Math.max(0, Math.round(dist / total * duration))                      *)
(* which is evaluated here exactly, scaled by 16 * em.                     *)
(***************************************************************************)
\* Math.round of the non-negative fraction num / den
RoundDiv(num, den) == (2 * num + den) \div (2 * den)

\* Mutant of CalculatePreHighlightDelay: the trigger is placed at the end of
\* the text (triggerPointFromTextEnd forgotten), so wide syllables trigger at
\* (w + 0.375) / (w + 0.75).
CalculatePreHighlightDelay_LateTrigger(widthPx, emPx, currentDuration) ==
    LET px == IF emPx > 0 THEN widthPx ELSE 0
        em == IF emPx > 0 THEN emPx ELSE 1
        total16 == 16 * px + 12 * em
        dist16 == IF 4 * px <= 3 * em THEN 3 * em ELSE 16 * px + 6 * em
    IN Max(0, RoundDiv(dist16 * currentDuration, total16))

CalculatePreHighlightDelay(widthPx, emPx, currentDuration) ==
    LET px == IF emPx > 0 THEN widthPx ELSE 0
        em == IF emPx > 0 THEN emPx ELSE 1
        total16 == 16 * px + 12 * em
        dist16 == IF 4 * px <= 3 * em THEN 3 * em ELSE 16 * px
    IN Max(0, RoundDiv(dist16 * currentDuration, total16))

\* _getTextWidth('M', font): the em width of the rendering font, in pixels
EmWidthPx == 16

\* Mutant of SyllableElements: the pre-highlight duration is the whole
\* syllable duration (the subtraction of the delay at 741 and 757 forgotten).
SyllableElements_WholeDuration(syllabus) ==
    Array([j \in 1..Len(syllabus) |->
        LET s == syllabus[j]
            hasNext == j < Len(syllabus)
            delayMs == CalculatePreHighlightDelay(s.widthPx, EmWidthPx, s.duration)
        IN [word |-> s.word,
            startTimeMs |-> s.time,
            durationMs |-> s.duration,
            endTimeMs |-> s.time + s.duration,
            nextSyllableInWord |-> IF hasNext THEN j + 1 ELSE 0,
            preHighlightDurationMs |-> IF hasNext THEN Max(0, s.duration) ELSE -1,
            preHighlightDelayMs |-> IF hasNext THEN delayMs ELSE -1]])

\* lines 649-663 and 730-760 (flushWordBuffer): the syllable elements of one
\* line.  Inside a word every syllable but the last is linked to the next one
\* (745-760); the last syllable of a word is kept as pendingSyllable and linked
\* to the first syllable of the next word of the line (730-743).  Both links
\* carry the delay and duration derived from the linking syllable.
SyllableElements(syllabus) ==
    Array([j \in 1..Len(syllabus) |->
        LET s == syllabus[j]
            hasNext == j < Len(syllabus)
            delayMs == CalculatePreHighlightDelay(s.widthPx, EmWidthPx, s.duration)
        IN [word |-> s.word,
            startTimeMs |-> s.time,
            durationMs |-> s.duration,
            endTimeMs |-> s.time + s.duration,
            nextSyllableInWord |-> IF hasNext THEN j + 1 ELSE 0,
            preHighlightDurationMs |-> IF hasNext THEN Max(0, s.duration - delayMs) ELSE -1,
            preHighlightDelayMs |-> IF hasNext THEN delayMs ELSE -1]])

(***************************************************************************)
(* The songs the model plays (lyrics.data of type "Word"): line times in   *)
(* milliseconds (the source has seconds), syllable times in milliseconds,  *)
(* the measured width of every syllable's text in pixels, and the number   *)
(* of the word the syllable belongs to.  No song has a pause of 7 s, so    *)
(* no gap line is created (lines 1121-1139).                               *)
(*   song 1: one line of two words, three syllables;                       *)
(*   song 2: four overlapping lines without syllable timing.               *)
(***************************************************************************)
Songs ==
    << << [startTime |-> 0, endTime |-> 2000, syllabus |->
            << [time |-> 0, duration |-> 1000, widthPx |-> 18, word |-> 1],
               [time |-> 1000, duration |-> 500, widthPx |-> 8, word |-> 1],
               [time |-> 1500, duration |-> 300, widthPx |-> 24, word |-> 2] >>] >>,
       << [startTime |-> 700, endTime |-> 1500, syllabus |-> <<>>],
          [startTime |-> 900, endTime |-> 1600, syllabus |-> <<>>],
          [startTime |-> 1100, endTime |-> 1650, syllabus |-> <<>>],
          [startTime |-> 1390, endTime |-> 1690, syllabus |-> <<>>] >>,
       << [startTime |-> 0, endTime |-> 1000, syllabus |-> <<>>],
          [startTime |-> 1000, endTime |-> 1100, syllabus |-> <<>>] >> >>

\* The readings of video.currentTime * 1000 the model takes.
Times == {0, 1000, 1200, 1500, 1600, 10000}

\* Layout: every cached element is LineHeightPx tall and they are stacked, so
\* the element at index i has offsetTop (i - 1) * LineHeightPx; the scroll
\* container is ContainerHeightPx tall and _getScrollPaddingTop is 25% of it.
LineHeightPx == 70
ContainerHeightPx == 280
ScrollPaddingTop == ContainerHeightPx \div 4

\* lines 1120, 1140, 1176-1177: the lyric lines after _retimingActiveTimings,
\* data-start-time / data-end-time parsed back to milliseconds
RetimedLines(data, fp) ==
    LET els == Array([i \in 1..Len(data) |->
                   [startTime |-> Ms(data[i].startTime), endTime |-> Ms(data[i].endTime)]])
        out == RetimingActiveTimings(els, fp)
    IN Array([i \in 1..Len(data) |->
           [startTimeMs |-> out[i].startTime \div Ms(1),
            endTimeMs |-> out[i].endTime \div Ms(1)]])

\* lines 1143-1146, 1164-1166, 1174-1180, 1193: cachedLyricsLines of a render:
\* the lyric lines, the metadata element and the empty padding element, whose
\* missing data-start-time parses to NaN (hasTime = FALSE).
BuildCachedLyricsLines(song, fp) ==
    LET data == Songs[song]
        n == Len(data)
        rt == RetimedLines(data, fp)
        lastEnd == IF n > 0 THEN data[n].endTime ELSE 0
    IN Array([i \in 1..(n + 2) |->
           IF i <= n
           THEN [ref |-> <<Attached, i>>, id |-> i, song |-> song, hasTime |-> TRUE,
                 startTimeMs |-> rt[i].startTimeMs, endTimeMs |-> rt[i].endTimeMs]
           ELSE IF i = n + 1
           THEN [ref |-> <<Attached, i>>, id |-> i, song |-> song, hasTime |-> TRUE,
                 startTimeMs |-> lastEnd + MetadataStartAfterMs,
                 endTimeMs |-> lastEnd + MetadataEndAfterMs]
           ELSE [ref |-> <<Attached, i>>, id |-> i, song |-> song, hasTime |-> FALSE,
                 startTimeMs |-> 0, endTimeMs |-> 0]])

\* the syllable elements inside a cached element (querySelectorAll of line
\* 1799): those of its lyric line, none for the metadata and padding elements
SyllablesOf(line) ==
    IF line.id <= Len(Songs[line.song])
    THEN SyllableElements(Songs[line.song][line.id].syllabus)
    ELSE <<>>

\* what a reference held across a render points to afterwards
Detach(ref) == IF ref = NoLine THEN NoLine ELSE <<Detached, ref[2]>>

\* A syllable element as created by the render: no class, no animation.
FreshSyllable ==
    [highlight |-> FALSE, finished |-> FALSE, preHighlight |-> FALSE,
     animation |-> FALSE, preWipeDuration |-> -1, preWipeDelay |-> -1]

FreshSyllables(lines) ==
    Array([i \in 1..Len(lines) |->
              Array([j \in 1..Len(SyllablesOf(lines[i])) |-> FreshSyllable])])

\* Array.prototype.indexOf on cachedLyricsLines, 1-based; 0 stands for -1
IndexOfLine(lines, ref) ==
    IF \E i \in 1..Len(lines) : lines[i].ref = ref
    THEN CHOOSE i \in 1..Len(lines) : lines[i].ref = ref
    ELSE 0

\* element.offsetTop: a detached element (one of an earlier render) has 0
OffsetTop(s, ref) ==
    LET i == IndexOfLine(s.cachedLyricsLines, ref)
    IN IF i = 0 THEN 0 ELSE (i - 1) * LineHeightPx

\* element.getBoundingClientRect().top - scrollContainerTop: the position the
\* element is drawn at once the scroll transition has settled
RenderedTop(s, ref) ==
    IF IndexOfLine(s.cachedLyricsLines, ref) = 0 THEN 0
    ELSE OffsetTop(s, ref) + s.currentScrollOffset

(***************************************************************************)
(* Scrolling.  The operators below take the renderer state s (the fields   *)
(* of the LyricsPlusRenderer object and of the elements it owns, plus a    *)
(* log of what the running handler did) and return the state after the     *)
(* call.  The lyrics tab is shown (display: block) throughout.             *)
(***************************************************************************)
VisibleIds(s) == s.visibleLineIds

\* Mutant of StaggeredDelays: the delay grows with the index distance from
\* the reference line (delayCounter of line 2063 counts every element).
StaggeredDelays_ByIndex(s, referenceLineIndex) ==
    Array([i \in 1..Len(s.cachedLyricsLines) |->
        IF s.cachedLyricsLines[i].id \in VisibleIds(s) /\ i >= referenceLineIndex
        THEN DelayIncrement * (i - referenceLineIndex)
        ELSE 0])

\* lines 2053-2069: the staggered delays, counted over the visible elements
\* from the reference line onwards
StaggeredDelays(s, referenceLineIndex) ==
    Array([i \in 1..Len(s.cachedLyricsLines) |->
        IF s.cachedLyricsLines[i].id \in VisibleIds(s) /\ i >= referenceLineIndex
        THEN DelayIncrement *
             Cardinality({k \in referenceLineIndex..(i - 1) :
                             s.cachedLyricsLines[k].id \in VisibleIds(s)})
        ELSE 0])

\* _animateScroll (2010-2070)
AnimateScroll(s, newTranslateY, forceScroll) ==
    IF ~forceScroll /\ s.currentScrollOffset = newTranslateY THEN s
    ELSE LET s1 == [s EXCEPT !.currentScrollOffset = newTranslateY]
             referenceLine ==
                 IF s1.currentPrimaryActiveLine # NoLine THEN s1.currentPrimaryActiveLine
                 ELSE IF s1.lastPrimaryActiveLine # NoLine THEN s1.lastPrimaryActiveLine
                 ELSE IF Len(s1.cachedLyricsLines) > 0 THEN s1.cachedLyricsLines[1].ref
                 ELSE NoLine
             referenceLineIndex == IndexOfLine(s1.cachedLyricsLines, referenceLine)
         IN IF forceScroll \/ s1.userScrollingClass
            THEN [s1 EXCEPT !.lineDelay = Array([i \in 1..Len(s1.cachedLyricsLines) |-> 0])]
            ELSE IF referenceLine = NoLine \/ referenceLineIndex = 0 THEN s1
            ELSE [s1 EXCEPT !.lineDelay = StaggeredDelays(s1, referenceLineIndex)]

\* _scrollToActiveLine (2095-2124).  The forceScroll argument only skips the
\* "already there" test; _animateScroll is called without it (line 2123).
ScrollToActiveLine(s, activeLine, forceScroll) ==
    IF activeLine = NoLine \/ ~s.lyricsContainer THEN s
    ELSE LET targetTranslateY == ScrollPaddingTop - OffsetTop(s, activeLine)
         IN IF ~forceScroll
               /\ Abs(RenderedTop(s, activeLine) - ScrollPaddingTop) < NearTargetPx
            THEN s
            ELSE AnimateScroll([s EXCEPT !.userScrollingClass = FALSE,
                                         !.isUserControllingScroll = FALSE,
                                         !.userScrollIdleTimer = FALSE],
                               targetTranslateY, FALSE)

\* _updatePositionClassesAndScroll (2072-2093)
UpdatePositionClassesAndScroll(s, lineToScroll, forceScroll) ==
    IF ~s.lyricsContainer \/ Len(s.cachedLyricsLines) = 0 THEN s
    ELSE IF IndexOfLine(s.cachedLyricsLines, lineToScroll) = 0 THEN s
    ELSE ScrollToActiveLine(s, lineToScroll, forceScroll)

\* Mutant of HandleUserScroll: the timer of lines 403-412 is not started.
HandleUserScroll_NoTimer(s, delta) ==
    LET s1 == [s EXCEPT !.isUserControllingScroll = TRUE]
        moved == s.currentScrollOffset - (7 * delta) \div 10
        newScrollOffset ==
            IF Len(s.cachedLyricsLines) = 0 THEN moved
            ELSE Min(Max(moved, IF Len(s.cachedLyricsLines) * LineHeightPx > ContainerHeightPx
                                THEN ContainerHeightPx - Len(s.cachedLyricsLines) * LineHeightPx
                                ELSE 0), 0)
    IN AnimateScroll(s1, newScrollOffset, FALSE)

\* lines 436-451: the clamp of a manual scroll offset
MaxAllowedScroll(s) ==
    LET n == Len(s.cachedLyricsLines)
        contentTotalHeight == n * LineHeightPx
    IN IF contentTotalHeight > ContainerHeightPx
       THEN ContainerHeightPx - n * LineHeightPx
       ELSE 0

\* _handleUserScroll (398-454); delta is a multiple of 10 px, so that
\* delta * 0.7 is a whole number of pixels
HandleUserScroll(s, delta) ==
    LET s1 == [s EXCEPT !.isUserControllingScroll = TRUE,
                        !.userScrollRevertTimer = RevertDelayMs]
        moved == s.currentScrollOffset - (7 * delta) \div 10
        newScrollOffset ==
            IF Len(s.cachedLyricsLines) = 0 THEN moved
            ELSE Min(Max(moved, MaxAllowedScroll(s)), 0)
    IN AnimateScroll(s1, newScrollOffset, FALSE)

(***************************************************************************)
(* Syllables.  els is the sequence of syllable element states of one line, *)
(* syl the corresponding timing data; a call returns the new element       *)
(* states and the set of syllables whose wipe animation it started.        *)
(***************************************************************************)
\* Mutant of ResetSyllable: the finished class is added (lines 1966-1968)
\* but not removed again.
ResetSyllable_KeepFinished(e) == [FreshSyllable EXCEPT !.finished = TRUE]

\* _resetSyllable (1963-1974)
ResetSyllable(e) == FreshSyllable

\* _updateSyllableAnimation (1834-1961) for syllable j of a line
UpdateSyllableAnimation(r, syl, j) ==
    IF r.els[j].highlight THEN r
    ELSE LET next == syl[j].nextSyllableInWord
             own == [r.els EXCEPT ![j].preHighlight = FALSE,
                                  ![j].highlight = TRUE,
                                  ![j].animation = TRUE]
             armed == IF next = 0 THEN own
                      ELSE [own EXCEPT ![next].preHighlight = TRUE,
                                       ![next].preWipeDuration = syl[j].preHighlightDurationMs,
                                       ![next].preWipeDelay = syl[j].preHighlightDelayMs]
         IN [els |-> armed, started |-> r.started \cup {j}]

\* Mutant of UpdateSyllable: the window test forgets the hasHighlight guard of
\* line 1815 and restarts the animation on every tick inside the window.
UpdateSyllable_NoGuard(r, syl, j, currentTime) ==
    LET e == r.els[j]
        startTime == syl[j].startTimeMs
        endTime == syl[j].endTimeMs
    IN IF currentTime >= startTime /\ currentTime <= endTime
       THEN UpdateSyllableAnimation([r EXCEPT !.els[j].highlight = FALSE], syl, j)
       ELSE IF currentTime < startTime /\ e.highlight
       THEN [r EXCEPT !.els[j] = ResetSyllable(e)]
       ELSE IF currentTime > startTime
       THEN IF ~e.finished THEN [r EXCEPT !.els[j].finished = TRUE]
            ELSE IF ~e.highlight THEN UpdateSyllableAnimation(r, syl, j)
            ELSE r
       ELSE r

\* Mutant of UpdateSyllable: past its end a syllable is first animated and
\* only then marked finished (the two tests of lines 1821-1825 swapped).
UpdateSyllable_HighlightFirst(r, syl, j, currentTime) ==
    LET e == r.els[j]
        startTime == syl[j].startTimeMs
        endTime == syl[j].endTimeMs
    IN IF currentTime >= startTime /\ currentTime <= endTime
       THEN IF ~e.highlight THEN UpdateSyllableAnimation(r, syl, j) ELSE r
       ELSE IF currentTime < startTime /\ e.highlight
       THEN [r EXCEPT !.els[j] = ResetSyllable(e)]
       ELSE IF currentTime > startTime
       THEN IF ~e.highlight THEN UpdateSyllableAnimation(r, syl, j)
            ELSE IF ~e.finished THEN [r EXCEPT !.els[j].finished = TRUE]
            ELSE r
       ELSE r

\* Mutant of UpdateSyllable: a finished syllable without highlight is left
\* alone (the else-if of lines 1823-1825 is missing).
UpdateSyllable_NoLateHighlight(r, syl, j, currentTime) ==
    LET e == r.els[j]
        startTime == syl[j].startTimeMs
        endTime == syl[j].endTimeMs
    IN IF currentTime >= startTime /\ currentTime <= endTime
       THEN IF ~e.highlight THEN UpdateSyllableAnimation(r, syl, j) ELSE r
       ELSE IF currentTime < startTime /\ e.highlight
       THEN [r EXCEPT !.els[j] = ResetSyllable(e)]
       ELSE IF currentTime > startTime
       THEN IF ~e.finished THEN [r EXCEPT !.els[j].finished = TRUE] ELSE r
       ELSE r

\* Mutant of UpdateSyllable: the window of line 1813 excludes its end.
UpdateSyllable_HalfOpen(r, syl, j, currentTime) ==
    LET e == r.els[j]
        startTime == syl[j].startTimeMs
        endTime == syl[j].endTimeMs
    IN IF currentTime >= startTime /\ currentTime < endTime
       THEN IF ~e.highlight THEN UpdateSyllableAnimation(r, syl, j) ELSE r
       ELSE IF currentTime < startTime /\ e.highlight
       THEN [r EXCEPT !.els[j] = ResetSyllable(e)]
       ELSE IF currentTime > startTime
       THEN IF ~e.finished THEN [r EXCEPT !.els[j].finished = TRUE]
            ELSE IF ~e.highlight THEN UpdateSyllableAnimation(r, syl, j)
            ELSE r
       ELSE r

\* lines 1807-1826: one syllable of an active line
UpdateSyllable(r, syl, j, currentTime) ==
    LET e == r.els[j]
        startTime == syl[j].startTimeMs
        endTime == syl[j].endTimeMs
    IN IF currentTime >= startTime /\ currentTime <= endTime
       THEN IF ~e.highlight THEN UpdateSyllableAnimation(r, syl, j) ELSE r
       ELSE IF currentTime < startTime /\ e.highlight
       THEN [r EXCEPT !.els[j] = ResetSyllable(e)]
       ELSE IF currentTime > startTime
       THEN IF ~e.finished THEN [r EXCEPT !.els[j].finished = TRUE]
            ELSE IF ~e.highlight THEN UpdateSyllableAnimation(r, syl, j)
            ELSE r
       ELSE r

\* lines 1803-1827: the syllables of one line, in document order
RECURSIVE UpdateLineSyllables(_, _, _, _)
UpdateLineSyllables(r, syl, j, currentTime) ==
    IF j > Len(syl) THEN r
    ELSE UpdateLineSyllables(UpdateSyllable(r, syl, j, currentTime), syl, j + 1, currentTime)

\* _updateSyllables (1783-1831): every line whose id is in activeLineIds and
\* that document.getElementById still finds
UpdateSyllables(s, currentTime) ==
    IF s.activeLineIds = {} THEN s
    ELSE LET n == Len(s.cachedLyricsLines)
             res == Array([i \in 1..n |->
                        IF i \in s.activeLineIds
                        THEN UpdateLineSyllables([els |-> s.syllables[i], started |-> {}],
                                                 SyllablesOf(s.cachedLyricsLines[i]), 1, currentTime)
                        ELSE [els |-> s.syllables[i], started |-> {}]])
         IN [s EXCEPT !.syllables = Array([i \in 1..n |-> res[i].els]),
                      !.log.animationStarts =
                          UNION {{<<i, j>> : j \in res[i].started} : i \in 1..n}]

\* Mutant of DeactivateLines: the syllables of a line that leaves the active
\* set are not reset (the call of line 1701 is missing).
DeactivateLines_NoReset(s, newActiveLineIds) == s

\* _resetSyllables (1976-1979) for the lines that left the active set
\* (lines 1694-1707)
DeactivateLines(s, newActiveLineIds) ==
    [s EXCEPT !.syllables =
        Array([i \in 1..Len(s.cachedLyricsLines) |->
            IF i \in s.activeLineIds /\ i \notin newActiveLineIds
            THEN Array([j \in 1..Len(s.syllables[i]) |-> ResetSyllable(s.syllables[i][j])])
            ELSE s.syllables[i]])]

(***************************************************************************)
(* The tick.                                                               *)
(***************************************************************************)
\* lines 1611-1618: the cached array of visible lines, rebuilt when the
\* sorted list of visible ids differs from the one it was built for
RefreshVisibleLines(s) ==
    IF ~s.cachedVisibleLines.valid \/ s.cachedVisibleLines.hash # s.visibleLineIds
    THEN [s EXCEPT !.cachedVisibleLines =
             [valid |-> TRUE, hash |-> s.visibleLineIds,
              lines |-> SelectSeq(s.cachedLyricsLines,
                                  LAMBDA line : line.id \in s.visibleLineIds)]]
    ELSE s

\* Mutant of LineToScroll: among the lines that contain the predictive time,
\* the comparison of line 1636 is reversed and the latest-starting one wins.
LineToScroll_LatestPredictive(lines, currentTime) ==
    LET predictiveTime == currentTime + ScrollLookAheadMs
        lookAheadTime == currentTime - ScrollLookAheadMs
        predictive == {i \in 1..Len(lines) :
                          /\ lines[i].hasTime
                          /\ predictiveTime >= lines[i].startTimeMs
                          /\ predictiveTime < lines[i].endTimeMs}
        started == {i \in 1..Len(lines) :
                       lines[i].hasTime /\ lookAheadTime >= lines[i].startTimeMs}
    IN IF predictive # {}
       THEN CHOOSE i \in predictive : \A k \in predictive :
                \/ lines[i].startTimeMs > lines[k].startTimeMs
                \/ lines[i].startTimeMs = lines[k].startTimeMs /\ i <= k
       ELSE IF started # {}
       THEN CHOOSE i \in started : \A k \in started : k <= i
       ELSE IF Len(lines) > 0 THEN 1
       ELSE 0

\* lines 1620-1655: the index in cachedLyricsLines of the scroll target
LineToScroll(lines, currentTime) ==
    LET predictiveTime == currentTime + ScrollLookAheadMs
        lookAheadTime == currentTime - ScrollLookAheadMs
        predictive == {i \in 1..Len(lines) :
                          /\ lines[i].hasTime
                          /\ predictiveTime >= lines[i].startTimeMs
                          /\ predictiveTime < lines[i].endTimeMs}
        started == {i \in 1..Len(lines) :
                       lines[i].hasTime /\ lookAheadTime >= lines[i].startTimeMs}
    IN IF predictive # {}
       THEN CHOOSE i \in predictive : \A k \in predictive :
                \/ lines[i].startTimeMs < lines[k].startTimeMs
                \/ lines[i].startTimeMs = lines[k].startTimeMs /\ i <= k
       ELSE IF started # {}
       THEN CHOOSE i \in started : \A k \in started : k <= i
       ELSE IF Len(lines) > 0 THEN 1
       ELSE 0

\* Mutant of InHighlightWindow: the window excludes its end.
InHighlightWindow_HalfOpen(line, currentTime) ==
    /\ line.hasTime
    /\ currentTime >= line.startTimeMs - HighlightLookAheadMs
    /\ currentTime < line.endTimeMs - HighlightLookAheadMs

\* line 1664: the activation window of a line
InHighlightWindow(line, currentTime) ==
    /\ line.hasTime
    /\ currentTime >= line.startTimeMs - HighlightLookAheadMs
    /\ currentTime <= line.endTimeMs - HighlightLookAheadMs

\* Mutant of ActivePositions: the loop of line 1662 has no limit.
ActivePositions_NoLimit(visibleLines, currentTime) ==
    {k \in 1..Len(visibleLines) : InHighlightWindow(visibleLines[k], currentTime)}

\* lines 1659-1667: the positions in visibleLines the loop pushes: matching
\* lines, taken in order until three are found
ActivePositions(visibleLines, currentTime) ==
    LET matching == {k \in 1..Len(visibleLines) :
                        InHighlightWindow(visibleLines[k], currentTime)}
    IN {k \in matching : Cardinality({m \in matching : m < k}) < MaxActiveLines}

\* lines 1670-1672, 1724: the first element after the stable sort by start
\* time, descending; NoLine when nothing is active
MostRecentActiveLine(visibleLines, positions) ==
    IF positions = {} THEN NoLine
    ELSE LET k == CHOOSE p \in positions : \A q \in positions :
                      \/ visibleLines[p].startTimeMs > visibleLines[q].startTimeMs
                      \/ visibleLines[p].startTimeMs = visibleLines[q].startTimeMs /\ p <= q
         IN visibleLines[k].ref

\* Mutant of TriggerScroll: the scroll decision does not look at
\* isUserControllingScroll (the test of line 1682 is missing).
TriggerScroll_IgnoreUser(s, lineToScroll, isForceScroll) ==
    IF lineToScroll # NoLine
       /\ (lineToScroll # s.currentPrimaryActiveLine \/ isForceScroll)
    THEN LET s1 == UpdatePositionClassesAndScroll(s, lineToScroll, isForceScroll)
         IN [s1 EXCEPT !.lastPrimaryActiveLine = s1.currentPrimaryActiveLine,
                       !.currentPrimaryActiveLine = lineToScroll]
    ELSE s

\* lines 1681-1687: the scroll decision
TriggerScroll(s, lineToScroll, isForceScroll) ==
    IF lineToScroll # NoLine
       /\ (lineToScroll # s.currentPrimaryActiveLine \/ isForceScroll)
       /\ (~s.isUserControllingScroll \/ isForceScroll)
    THEN LET s1 == UpdatePositionClassesAndScroll(s, lineToScroll, isForceScroll)
         IN [s1 EXCEPT !.lastPrimaryActiveLine = s1.currentPrimaryActiveLine,
                       !.currentPrimaryActiveLine = lineToScroll]
    ELSE s

\* Mutant of UpdateLyricsHighlight: the active set is applied before the
\* scroll decision (lines 1689-1731 moved in front of line 1681).
UpdateLyricsHighlight_ActivateFirst(s, currentTime, isForceScroll) ==
    IF Len(s.cachedLyricsLines) = 0 THEN s
    ELSE LET s1 == RefreshVisibleLines(s)
             visibleLines == s1.cachedVisibleLines.lines
             target == LineToScroll(s1.cachedLyricsLines, currentTime)
             lineToScroll == IF target = 0 THEN NoLine ELSE s1.cachedLyricsLines[target].ref
             positions == ActivePositions(visibleLines, currentTime)
             newActiveLineIds == {visibleLines[k].id : k \in positions}
             s2 == DeactivateLines(s1, newActiveLineIds)
             s3 == [s2 EXCEPT !.activeLineIds = newActiveLineIds,
                              !.currentFullscreenFocusedLine =
                                  MostRecentActiveLine(visibleLines, positions)]
             s4 == TriggerScroll(
                       [s3 EXCEPT !.log.lineToScroll = lineToScroll,
                                  !.log.activeAtScroll =
                                      IF s3.activeLineIds = newActiveLineIds
                                      THEN "fresh" ELSE "stale"],
                       lineToScroll, isForceScroll)
         IN UpdateSyllables(s4, currentTime)

\* Mutant of UpdateLyricsHighlight: the guard clause of lines 1601-1603 is
\* missing.
UpdateLyricsHighlight_NoGuard(s, currentTime, isForceScroll) ==
    LET s1 == RefreshVisibleLines(s)
        visibleLines == s1.cachedVisibleLines.lines
        target == LineToScroll(s1.cachedLyricsLines, currentTime)
        lineToScroll == IF target = 0 THEN NoLine ELSE s1.cachedLyricsLines[target].ref
        positions == ActivePositions(visibleLines, currentTime)
        newActiveLineIds == {visibleLines[k].id : k \in positions}
        s2 == TriggerScroll(
                  [s1 EXCEPT !.log.lineToScroll = lineToScroll,
                             !.log.activeAtScroll =
                                 IF s1.activeLineIds = newActiveLineIds
                                 THEN "fresh" ELSE "stale"],
                  lineToScroll, isForceScroll)
        s3 == DeactivateLines(s2, newActiveLineIds)
        s4 == [s3 EXCEPT !.activeLineIds = newActiveLineIds,
                         !.currentFullscreenFocusedLine =
                             MostRecentActiveLine(visibleLines, positions)]
    IN UpdateSyllables(s4, currentTime)

\* _updateLyricsHighlight (1599-1781).  log.activeAtScroll records whether
\* this.activeLineIds, at the moment of the scroll decision of line 1681,
\* is the set computed in this call ("fresh") or not ("stale").
UpdateLyricsHighlight(s, currentTime, isForceScroll) ==
    IF Len(s.cachedLyricsLines) = 0 THEN s
    ELSE LET s1 == RefreshVisibleLines(s)
             visibleLines == s1.cachedVisibleLines.lines
             target == LineToScroll(s1.cachedLyricsLines, currentTime)
             lineToScroll == IF target = 0 THEN NoLine ELSE s1.cachedLyricsLines[target].ref
             positions == ActivePositions(visibleLines, currentTime)
             newActiveLineIds == {visibleLines[k].id : k \in positions}
             s2 == TriggerScroll(
                       [s1 EXCEPT !.log.lineToScroll = lineToScroll,
                                  !.log.activeAtScroll =
                                      IF s1.activeLineIds = newActiveLineIds
                                      THEN "fresh" ELSE "stale"],
                       lineToScroll, isForceScroll)
             s3 == DeactivateLines(s2, newActiveLineIds)
             s4 == [s3 EXCEPT !.activeLineIds = newActiveLineIds,
                              !.currentFullscreenFocusedLine =
                                  MostRecentActiveLine(visibleLines, positions)]
         IN UpdateSyllables(s4, currentTime)

\* Mutant of Sync: only a forward jump counts as a seek (Math.abs of line
\* 1574 is missing).
Sync_ForwardOnly(s, currentTime) ==
    LET isForceScroll == currentTime - s.lastTime > SeekThresholdMs
        s1 == UpdateLyricsHighlight(
                  [s EXCEPT !.log = [isSync |-> TRUE, currentTime |-> currentTime,
                                     isForceScroll |-> isForceScroll,
                                     lineToScroll |-> NoLine, animationStarts |-> {},
                                     revert |-> "none", activeAtScroll |-> "none"]],
                  currentTime, isForceScroll)
    IN [s1 EXCEPT !.lastTime = currentTime, !.lyricsAnimationFrameId = TRUE]

\* the sync callback of _startLyricsSync (1572-1578)
Sync(s, currentTime) ==
    LET isForceScroll == Abs(currentTime - s.lastTime) > SeekThresholdMs
        s1 == UpdateLyricsHighlight(
                  [s EXCEPT !.log = [isSync |-> TRUE, currentTime |-> currentTime,
                                     isForceScroll |-> isForceScroll,
                                     lineToScroll |-> NoLine, animationStarts |-> {},
                                     revert |-> "none", activeAtScroll |-> "none"]],
                  currentTime, isForceScroll)
    IN [s1 EXCEPT !.lastTime = currentTime, !.lyricsAnimationFrameId = TRUE]

(***************************************************************************)
(* Handlers.                                                               *)
(***************************************************************************)
NoLog ==
    [isSync |-> FALSE, currentTime |-> 0, isForceScroll |-> FALSE,
     lineToScroll |-> NoLine, animationStarts |-> {}, revert |-> "none",
     activeAtScroll |-> "none"]

\* the constructor (7-52) and the touchState of _setupUserScrollListener
\* (205-214)
Constructed ==
    [lyricsContainer |-> FALSE,
     lyricsAnimationFrameId |-> FALSE,
     syncFrames |-> 0,
     currentPrimaryActiveLine |-> NoLine,
     lastPrimaryActiveLine |-> NoLine,
     currentFullscreenFocusedLine |-> NoLine,
     lastTime |-> 0,
     cachedLyricsLines |-> <<>>,
     activeLineIds |-> {},
     visibleLineIds |-> {},
     cachedVisibleLines |-> [valid |-> FALSE, hash |-> {}, lines |-> <<>>],
     currentScrollOffset |-> 0,
     isUserControllingScroll |-> FALSE,
     userScrollRevertTimer |-> 0,
     userScrollIdleTimer |-> FALSE,
     userScrollingClass |-> FALSE,
     touchState |-> [isActive |-> FALSE, velocity |-> 0, momentum |-> FALSE],
     lineDelay |-> <<>>,
     syllables |-> <<>>,
     message |-> FALSE,
     renderTimers |-> <<>>,
     log |-> NoLog]

\* Mutant of StartLyricsSync: the frame requested before is not cancelled
\* (lines 1567-1569 are missing).
StartLyricsSync_NoCancel(s, currentTime) ==
    [s EXCEPT !.lastTime = currentTime,
              !.lyricsAnimationFrameId = TRUE,
              !.syncFrames = @ + 1]

\* _startLyricsSync (1560-1581): the frame requested before is cancelled and
\* a new one requested.  syncFrames is the number of sync callbacks the
\* browser holds in its animation-frame queue; lyricsAnimationFrameId tells
\* whether the renderer holds the handle of one.
StartLyricsSync(s, currentTime) ==
    [s EXCEPT !.lastTime = currentTime,
              !.lyricsAnimationFrameId = TRUE,
              !.syncFrames = (IF s.lyricsAnimationFrameId THEN @ - 1 ELSE @) + 1]

\* updateDisplayMode (926-1204), ending with _startLyricsSync (line 1201):
\* currentTime is the reading of the video clock when the loop is started
UpdateDisplayMode(s, song, fp, currentTime) ==
    LET lines == BuildCachedLyricsLines(song, fp)
        s1 == [s EXCEPT !.cachedLyricsLines = lines,
                        !.lastPrimaryActiveLine = Detach(@),
                        !.currentFullscreenFocusedLine = Detach(@),
                        !.cachedVisibleLines.lines =
                            Array([k \in 1..Len(@) |-> [@[k] EXCEPT !.ref = Detach(@)]]),
                        !.syllables = FreshSyllables(lines),
                        !.lineDelay = Array([i \in 1..Len(lines) |-> 0]),
                        !.activeLineIds = {},
                        !.visibleLineIds = {},
                        !.currentPrimaryActiveLine = NoLine]
        s2 == ScrollToActiveLine(s1, lines[1].ref, TRUE)
    IN StartLyricsSync(s2, currentTime)

\* the outcomes of the float comparisons made while re-timing a song
SongFloatOutcomes(song) ==
    LET els == Array([i \in 1..Len(Songs[song]) |->
                   [startTime |-> Ms(Songs[song][i].startTime),
                    endTime |-> Ms(Songs[song][i].endTime)]])
    IN UNION {{[overlap |-> ov, write |-> wr] : wr \in SUBSET WriteTies(els, ov)} :
                 ov \in SUBSET OverlapTies(els)}

\* _endTouchScrolling (383-391)
EndTouchScrolling(s) ==
    [s EXCEPT !.userScrollingClass = FALSE, !.touchState.velocity = 0]

\* cleanupLyrics (2369-2415)
Cleanup(s) ==
    [s EXCEPT !.lyricsAnimationFrameId = FALSE,
              !.syncFrames = IF s.lyricsAnimationFrameId THEN @ - 1 ELSE @,
              !.lyricsContainer = TRUE,
              !.message = TRUE,
              !.userScrollingClass = FALSE,
              !.activeLineIds = {},
              !.visibleLineIds = {},
              !.currentPrimaryActiveLine = NoLine,
              !.currentFullscreenFocusedLine = NoLine,
              !.cachedLyricsLines = <<>>,
              !.syllables = <<>>,
              !.lineDelay = <<>>,
              !.currentScrollOffset = 0,
              !.isUserControllingScroll = FALSE,
              !.userScrollIdleTimer = FALSE,
              !.log = NoLog]

\* displayLyrics (1221-1277): the render is immediate, or 400 ms later when
\* the container shows the loading message
DisplayLyricsCall(s0, song, fp, currentTime) ==
    LET s == [s0 EXCEPT !.lyricsContainer = TRUE,
                        !.userScrollingClass = FALSE,
                        !.isUserControllingScroll = FALSE,
                        !.log = NoLog]
    IN IF s0.message
       THEN [s EXCEPT !.renderTimers = Append(@, song)]
       ELSE UpdateDisplayMode(s, song, fp, currentTime)

\* displaySongNotFound (1432-1503): cleanupLyrics, then the not-found text
\* takes the place of the loading text
DisplaySongNotFound(s) == [Cleanup(s) EXCEPT !.message = FALSE]

(***************************************************************************)
(* The lyrics manager (src/unnamed/part_001, lyricsManager.js), with        *)
(* translation, romanization and SponsorBlock switched off: a call of       *)
(* fetchAndDisplayLyrics awaits one FETCH_LYRICS response, which resolves   *)
(* with success or without.  A song stands for its videoId and its song key.*)
(***************************************************************************)
NoFetchLog == [videoId |-> 0, outcome |-> "none"]

\* lines 2-10: the module variables; inFlight holds the calls suspended at
\* the await of line 145, started counts the calls made
ManagerLoaded ==
    [currentFetchVideoId |-> 0,
     lyricsFetchDebounceTimer |-> FALSE,
     lastRequestedSongKey |-> 0,
     lastFetchedLyrics |-> 0,
     inFlight |-> <<>>,
     started |-> 0,
     log |-> NoFetchLog]

\* lines 152, 167, 195: "Check if song changed", as written: the call compares
\* its own song with its own copy of that song's videoId
SongChanged(call) == call.currentSong # call.localCurrentFetchVideoId

\* lines 152-221, after the await: what a call does with its response.  log
\* records the call's videoId and whether it displayed lyrics, displayed
\* the not-found text, or returned before either.
AfterFetchLyrics(m, s, call, success, fp, currentTime) ==
    IF SongChanged(call)
    THEN [m |-> [m EXCEPT !.log = [videoId |-> call.currentSong,
                                   outcome |-> "discarded"]],
          s |-> s]
    ELSE IF success
    THEN [m |-> [m EXCEPT !.lastFetchedLyrics = call.currentSong,
                          !.log = [videoId |-> call.currentSong,
                                   outcome |-> "display"]],
          s |-> DisplayLyricsCall(s, call.currentSong, fp, currentTime)]
    ELSE [m |-> [m EXCEPT !.log = [videoId |-> call.currentSong,
                                   outcome |-> "notFound"]],
          s |-> DisplaySongNotFound(s)]

(***************************************************************************)
(* The environment: which songs are shown, what the video clock reads,     *)
(* which windows of lines the IntersectionObserver reports, and the        *)
(* gestures of the user.                                                   *)
(***************************************************************************)
MaxRenders == 2
MaxUserInputs == 2
MaxMomentumFrames == 2

\* event.deltaY of a wheel event, and lastY - currentY of a touch move
WheelDeltas == {-100, 100}
TouchDeltas == {-125, 125}
\* touchState.velocity * 16 of a momentum frame
MomentumDeltaPx == 100

\* The scroll container with its 200 px margins shows a run of consecutive
\* elements (all of them when there are fewer), or nothing yet; how many fit
\* depends on the height of the panel.
ViewportLines == 4
Windows(n, viewports) ==
    {{}} \cup UNION {{lo..(lo + Min(v, n) - 1) : lo \in 1..(n - Min(v, n) + 1)} :
                        v \in viewports}

Init ==
    /\ lr = Constructed
    /\ budget = [renders |-> 0, inputs |-> 0]
    /\ lm = ManagerLoaded
    /\ rtIn = <<>>
    /\ rtOut = <<>>
    /\ rtPhase = "idle"

\* displayLyrics (1221-1277): the render is immediate, or 400 ms later when
\* the container shows the loading message
DisplayLyrics(songs, times, renders) ==
    /\ budget.renders < renders
    /\ budget' = [budget EXCEPT !.renders = @ + 1]
    /\ \E song \in songs, currentTime \in times :
       \E fp \in SongFloatOutcomes(song) :
          lr' = DisplayLyricsCall(lr, song, fp, currentTime)
    /\ UNCHANGED <<rtVars, lm>>

\* the 400 ms timer of displayLyrics (1254-1257)
RenderTimerFires(times) ==
    /\ lr.renderTimers # <<>>
    /\ \E currentTime \in times :
       \E fp \in SongFloatOutcomes(Head(lr.renderTimers)) :
          lr' = UpdateDisplayMode([lr EXCEPT !.renderTimers = Tail(@),
                                             !.message = FALSE,
                                             !.log = NoLog],
                                  Head(lr.renderTimers), fp, currentTime)
    /\ UNCHANGED <<budget, rtVars, lm>>

\* cleanupLyrics (2369-2415), called when the song changes
CleanupLyrics ==
    /\ lr' = Cleanup(lr)
    /\ UNCHANGED <<budget, rtVars, lm>>

\* one animation frame of the synchronisation loop (1572-1578)
Tick(times) ==
    /\ lr.syncFrames > 0
    /\ \E currentTime \in times : lr' = Sync(lr, currentTime)
    /\ UNCHANGED <<budget, rtVars, lm>>

\* the IntersectionObserver callback (2133-2139)
VisibilityChange(viewports) ==
    /\ Len(lr.cachedLyricsLines) > 0
    /\ \E w \in Windows(Len(lr.cachedLyricsLines), viewports) :
          /\ w # lr.visibleLineIds
          /\ lr' = [lr EXCEPT !.visibleLineIds = w, !.log = NoLog]
    /\ UNCHANGED <<budget, rtVars, lm>>

UserInput ==
    /\ lr.lyricsContainer
    /\ budget.inputs < MaxUserInputs
    /\ budget' = [budget EXCEPT !.inputs = @ + 1]

\* the wheel listener (233-250)
Wheel ==
    /\ UserInput
    /\ \E deltaY \in WheelDeltas :
          lr' = [HandleUserScroll([lr EXCEPT !.userScrollingClass = TRUE,
                                             !.log = NoLog], deltaY)
                     EXCEPT !.userScrollIdleTimer = TRUE]
    /\ UNCHANGED <<rtVars, lm>>

\* the 200 ms timer of the wheel listener (245-249)
IdleTimerFires ==
    /\ lr.userScrollIdleTimer
    /\ lr' = [lr EXCEPT !.userScrollIdleTimer = FALSE,
                        !.userScrollingClass = FALSE,
                        !.log = NoLog]
    /\ UNCHANGED <<budget, rtVars, lm>>

\* Mutant of RevertTimerFires: the resync scrolls to the scroll target for
\* the clock reading of the last tick instead of currentPrimaryActiveLine.
RevertTimerFires_ToTarget ==
    /\ lr.userScrollRevertTimer # 0
    /\ LET s == [lr EXCEPT !.userScrollRevertTimer = 0,
                           !.isUserControllingScroll = FALSE,
                           !.log = NoLog]
           target == IF Len(s.cachedLyricsLines) = 0 THEN NoLine
                     ELSE s.cachedLyricsLines[
                              LineToScroll(s.cachedLyricsLines, s.lastTime)].ref
           s1 == IF s.currentPrimaryActiveLine # NoLine
                 THEN ScrollToActiveLine(s, target, TRUE)
                 ELSE s
       IN lr' = [s1 EXCEPT !.log.revert =
                    IF s1.currentScrollOffset # lr.currentScrollOffset
                    THEN "moved" ELSE "stayed"]
    /\ UNCHANGED <<budget, rtVars, lm>>

\* the 4 s timer of _handleUserScroll (406-412)
RevertTimerFires ==
    /\ lr.userScrollRevertTimer # 0
    /\ LET s == [lr EXCEPT !.userScrollRevertTimer = 0,
                           !.isUserControllingScroll = FALSE,
                           !.log = NoLog]
           s1 == IF s.currentPrimaryActiveLine # NoLine
                 THEN ScrollToActiveLine(s, s.currentPrimaryActiveLine, TRUE)
                 ELSE s
       IN lr' = [s1 EXCEPT !.log.revert =
                    IF s1.currentScrollOffset # lr.currentScrollOffset
                    THEN "moved" ELSE "stayed"]
    /\ UNCHANGED <<budget, rtVars, lm>>

\* the touchstart listener (253-278)
TouchStart ==
    /\ UserInput
    /\ lr' = [lr EXCEPT !.touchState = [isActive |-> TRUE, velocity |-> 0,
                                        momentum |-> FALSE],
                        !.userScrollingClass = TRUE,
                        !.userScrollIdleTimer = FALSE,
                        !.log = NoLog]
    /\ UNCHANGED <<rtVars, lm>>

\* the touchmove listener (280-301)
TouchMove ==
    /\ UserInput
    /\ lr.touchState.isActive
    /\ \E deltaY \in TouchDeltas :
          lr' = HandleUserScroll([lr EXCEPT !.log = NoLog], (8 * deltaY) \div 10)
    /\ UNCHANGED <<rtVars, lm>>

\* the touchend listener (303-336).  The velocity computed from the samples
\* is kept as the number of momentum frames it lasts, signed by direction;
\* 0 stands for a velocity of at most 0.1 px/ms.
TouchEnd ==
    /\ lr.touchState.isActive
    /\ \E velocity \in (-MaxMomentumFrames)..MaxMomentumFrames :
          LET s == [lr EXCEPT !.touchState.isActive = FALSE,
                              !.touchState.velocity = velocity,
                              !.log = NoLog]
          IN lr' = IF velocity # 0
                   THEN [s EXCEPT !.touchState.momentum = TRUE]
                   ELSE EndTouchScrolling(s)
    /\ UNCHANGED <<budget, rtVars, lm>>

\* one frame of _startMomentumScroll (359-374)
MomentumFrame ==
    /\ lr.touchState.momentum
    /\ LET v == lr.touchState.velocity
           dir == IF v > 0 THEN 1 ELSE -1
           s == HandleUserScroll([lr EXCEPT !.log = NoLog], dir * MomentumDeltaPx)
           s1 == [s EXCEPT !.touchState.velocity = v - dir]
       IN lr' = IF s1.touchState.velocity # 0 THEN s1
                ELSE EndTouchScrolling([s1 EXCEPT !.touchState.momentum = FALSE])
    /\ UNCHANGED <<budget, rtVars, lm>>

\* the touchcancel listener (339-346)
TouchCancel ==
    /\ UserInput
    /\ lr' = EndTouchScrolling([lr EXCEPT !.touchState.isActive = FALSE,
                                          !.touchState.momentum = FALSE,
                                          !.log = NoLog])
    /\ UNCHANGED <<rtVars, lm>>

\* fetchAndDisplayLyrics (13-33, 145-149), up to the await: a call for the
\* song whose debounce timer is pending returns at once
FetchAndDisplayLyrics(songs, fetches) ==
    /\ lm.started < fetches
    /\ \E currentSong \in songs, forceReload \in BOOLEAN :
          /\ ~(/\ lm.lyricsFetchDebounceTimer
               /\ lm.lastRequestedSongKey = currentSong
               /\ ~forceReload)
          /\ lm' = [lm EXCEPT !.started = @ + 1,
                              !.lyricsFetchDebounceTimer = TRUE,
                              !.lastRequestedSongKey = currentSong,
                              !.currentFetchVideoId = currentSong,
                              !.inFlight = Append(@,
                                  [currentSong |-> currentSong,
                                   localCurrentFetchVideoId |-> currentSong]),
                              !.log = NoFetchLog]
    /\ lr' = Cleanup(lr)
    /\ UNCHANGED <<budget, rtVars>>

\* the 200 ms debounce timer (23-26)
DebounceTimerFires ==
    /\ lm.lyricsFetchDebounceTimer
    /\ lm' = [lm EXCEPT !.lyricsFetchDebounceTimer = FALSE,
                        !.lastRequestedSongKey = 0]
    /\ UNCHANGED <<lr, budget, rtVars>>

\* the response of one call in flight arrives (145-221)
FetchResponse(times) ==
    /\ \E k \in 1..Len(lm.inFlight), success \in BOOLEAN, currentTime \in times :
       \E fp \in SongFloatOutcomes(lm.inFlight[k].currentSong) :
          LET call == lm.inFlight[k]
              m == [lm EXCEPT !.inFlight =
                       SubSeq(@, 1, k - 1) \o SubSeq(@, k + 1, Len(@))]
              r == AfterFetchLyrics(m, lr, call, success, fp, currentTime)
          IN lm' = r.m /\ lr' = r.s
    /\ UNCHANGED <<budget, rtVars>>

(***************************************************************************)
(* SpecSync: playback without gestures.  Both songs, every clock reading.  *)
(***************************************************************************)
AllSongs == {1, 2}

NextSync ==
    \/ DisplayLyrics(AllSongs, Times, MaxRenders)
    \/ RenderTimerFires(Times)
    \/ CleanupLyrics
    \/ Tick(Times)
    \/ VisibilityChange({ViewportLines})

SpecSync == Init /\ [][NextSync]_vars

(***************************************************************************)
(* SpecScroll: playback of song 2 with the gestures of the user and the    *)
(* timers they start.  The clock readings include a target change without  *)
(* a seek (1000 -> 1500) and seeks (to and from 10000).                    *)
(***************************************************************************)
ScrollSongs == {2}
ScrollTimes == {1000, 1500, 10000}

NextScroll ==
    \/ DisplayLyrics(ScrollSongs, ScrollTimes, 1)
    \/ RenderTimerFires(ScrollTimes)
    \/ CleanupLyrics
    \/ Tick(ScrollTimes)
    \/ VisibilityChange({ViewportLines})
    \/ Wheel
    \/ IdleTimerFires
    \/ RevertTimerFires
    \/ TouchStart
    \/ TouchMove
    \/ TouchEnd
    \/ MomentumFrame
    \/ TouchCancel

SpecScroll == Init /\ [][NextScroll]_vars


(***************************************************************************)
(* Claims about the synchronisation loop (SpecSync)                        *)
(***************************************************************************)
\* the state of a syllable: finished once it carries the finished class,
\* highlighting while it carries highlight only, pending otherwise
SyllableState(e) ==
    IF e.finished THEN "finished"
    ELSE IF e.highlight THEN "highlighting"
    ELSE "pending"

SyllableRank(e) ==
    IF e.finished THEN 2 ELSE IF e.highlight THEN 1 ELSE 0

\* the state is the one a tick has just left
AfterTick == lr.log.isSync

AllDelaysZero == \A i \in 1..Len(lr.lineDelay) : lr.lineDelay[i] = 0

\* C1 as stated: after a tick whose clock reading is more than 1000 ms away
\* from the previous one, the transition delay of every cached line is 0 ms.
C1_SeekResync_AsStated ==
    (AfterTick /\ lr.log.isForceScroll) => AllDelaysZero

\* what the idempotence claim compares: active-line set, syllable flags and
\* animations, primary and focused line, scroll offset, line delays
TickState(s) ==
    [activeLineIds |-> s.activeLineIds,
     syllables |-> s.syllables,
     currentPrimaryActiveLine |-> s.currentPrimaryActiveLine,
     currentFullscreenFocusedLine |-> s.currentFullscreenFocusedLine,
     currentScrollOffset |-> s.currentScrollOffset,
     lineDelay |-> s.lineDelay]

\* a syllable of an active line is marked finished without ever having been
\* highlighted: the tick found it already past its end
SkippedSyllable(s) ==
    \E i \in s.activeLineIds \cap (1..Len(s.syllables)) :
        \E j \in 1..Len(s.syllables[i]) :
            s.syllables[i][j].finished /\ ~s.syllables[i][j].highlight

HighlightedSyllable(s) ==
    \E i \in s.activeLineIds \cap (1..Len(s.syllables)) :
        \E j \in 1..Len(s.syllables[i]) : s.syllables[i][j].highlight

SyllablesTimed(s, startMs, durationMs) ==
    {ij \in UNION {{<<i, j>> : j \in 1..Len(s.syllables[i])} : i \in 1..Len(s.syllables)} :
        LET syl == SyllablesOf(s.cachedLyricsLines[ij[1]])[ij[2]]
        IN syl.startTimeMs = startMs /\ syl.durationMs = durationMs}

\* the states syllable ij shows after ticks at 1000, 1200, 1500 and 1600
\* that all find its line active
StatesOfExample(ij, expected) ==
    LET s1 == Sync(lr, 1000)
        s2 == Sync(s1, 1200)
        s3 == Sync(s2, 1500)
        s4 == Sync(s3, 1600)
        St(s) == SyllableState(s.syllables[ij[1]][ij[2]])
    IN (\A s \in {s1, s2, s3, s4} : ij[1] \in s.activeLineIds)
           => <<St(s1), St(s2), St(s3), St(s4)>> = expected

PendingExampleSyllables ==
    IF lr.lyricsAnimationFrameId
    THEN {ij \in SyllablesTimed(lr, 1000, 500) :
             SyllableState(lr.syllables[ij[1]][ij[2]]) = "pending"}
    ELSE {}

\* the state of syllable j of line i moves backward in this step
MovesBackward(i, j) ==
    SyllableRank(lr'.syllables[i][j]) < SyllableRank(lr.syllables[i][j])

\* a tick step in which every backward move satisfies Excuse(i, j)
TickRegressesOnlyWhen(Excuse(_, _)) ==
    lr'.log.isSync =>
        \A i \in 1..Len(lr.syllables) : \A j \in 1..Len(lr.syllables[i]) :
            MovesBackward(i, j) => Excuse(i, j)

IsRewind(i, j) ==
    lr'.log.currentTime < SyllablesOf(lr.cachedLyricsLines[i])[j].startTimeMs

LeavesActiveSet(i, j) ==
    i \in lr.activeLineIds /\ i \notin lr'.activeLineIds

RewindOrDeactivation(i, j) == IsRewind(i, j) \/ LeavesActiveSet(i, j)

\* C3 as stated: a pending syllable with start 1000 and duration 500 shows
\* highlighting, highlighting, finished, finished after ticks at 1000, 1200,
\* 1500, 1600, and no tick moves a syllable's state backward unless t < start.
C3_MonotonicHighlight_AsStated ==
    /\ [](\A ij \in PendingExampleSyllables :
            StatesOfExample(ij, <<"highlighting", "highlighting", "finished", "finished">>))
    /\ [][TickRegressesOnlyWhen(IsRewind)]_vars

\* C3 amended: the syllable is still highlighting at 1500, the closed end of
\* its window, and finished at 1600; a tick moves a syllable's state backward
\* only when t < start or when its line leaves the active set in that tick.
C3_MonotonicHighlight ==
    /\ [](\A ij \in PendingExampleSyllables :
            StatesOfExample(ij, <<"highlighting", "highlighting", "highlighting", "finished">>))
    /\ [][TickRegressesOnlyWhen(RewindOrDeactivation)]_vars

\* C3 witness: a tick at 1500 has left the syllable that starts at 1000 and
\* lasts 500 highlighting on an active line, and the tick at 1600 finishes it.
C3_Witness ==
    /\ AfterTick
    /\ lr.log.currentTime = 1500
    /\ \E ij \in SyllablesTimed(lr, 1000, 500) :
          /\ ij[1] \in lr.activeLineIds
          /\ SyllableState(lr.syllables[ij[1]][ij[2]]) = "highlighting"
          /\ SyllableState(Sync(lr, 1600).syllables[ij[1]][ij[2]]) = "finished"

\* the syllables of the rendered lines, as <<line, syllable>> index pairs
AllSyllables(s) ==
    UNION {{<<i, j>> : j \in 1..Len(s.syllables[i])} : i \in 1..Len(s.syllables)}

\* timing data and measured text of syllable ij
Timing(s, ij) == SyllablesOf(s.cachedLyricsLines[ij[1]])[ij[2]]
Measured(s, ij) ==
    Songs[s.cachedLyricsLines[ij[1]].song][s.cachedLyricsLines[ij[1]].id].syllabus[ij[2]]

\* the syllables that have a following syllable to pre-highlight
LinkedSyllables(s) == {ij \in AllSyllables(s) : Timing(s, ij).nextSyllableInWord # 0}

\* syllable n of line i carries the pre-highlight armed with these values
ArmedWith(s, i, n, delayMs, durationMs) ==
    /\ s.syllables[i][n].preHighlight
    /\ s.syllables[i][n].preWipeDelay = delayMs
    /\ s.syllables[i][n].preWipeDuration = durationMs

\* the syllables with start 0 and duration 1000 whose text is 1.125 em wide,
\* which puts the trigger at 3/5 of the wipe
ExampleLinkedSyllables(s) ==
    {ij \in LinkedSyllables(s) :
        /\ Timing(s, ij).startTimeMs = 0 /\ Timing(s, ij).durationMs = 1000
        /\ 8 * Measured(s, ij).widthPx = 9 * EmWidthPx}

InSyllableWindow(s, t) ==
    {ij \in AllSyllables(s) :
        /\ ij[1] \in s.activeLineIds
        /\ Timing(s, ij).startTimeMs <= t /\ t <= Timing(s, ij).endTimeMs}

\* in a tick step: a wipe animation is started only for a syllable that did
\* not carry the highlight flag, and a syllable becomes pre-highlighted only
\* when the syllable linked to it starts its animation in this tick
StartsOnlyOnTransition ==
    lr'.log.isSync =>
        \A ij \in AllSyllables(lr) :
            /\ ij \in lr'.log.animationStarts =>
                  /\ ~lr.syllables[ij[1]][ij[2]].highlight
                  /\ lr'.syllables[ij[1]][ij[2]].highlight
            /\ (lr'.syllables[ij[1]][ij[2]].preHighlight
                    /\ ~lr.syllables[ij[1]][ij[2]].preHighlight) =>
                  \E pq \in lr'.log.animationStarts :
                      pq[1] = ij[1] /\ Timing(lr, pq).nextSyllableInWord = ij[2]

UnhighlightedPastStart ==
    {ij \in AllSyllables(lr) :
        /\ ij[1] \in lr'.activeLineIds
        /\ ~lr.syllables[ij[1]][ij[2]].highlight
        /\ lr'.log.currentTime > Timing(lr, ij).startTimeMs}

C12_Rewind ==
    [][lr'.log.isSync =>
          \A ij \in AllSyllables(lr) :
              ( /\ ij[1] \in lr.activeLineIds
                /\ lr.syllables[ij[1]][ij[2]].highlight
                /\ lr'.log.currentTime < Timing(lr, ij).startTimeMs )
              => LET after == lr'.syllables[ij[1]][ij[2]]
                 IN /\ ~after.highlight /\ ~after.finished
                    /\ ~after.preHighlight /\ ~after.animation]_vars

\* C12 witness: after a tick with t < start a syllable of an active line is
\* back to pending while its follower still carries the pre-highlight its
\* earlier highlight armed.
C12_Witness ==
    /\ AfterTick
    /\ \E ij \in LinkedSyllables(lr) :
          /\ ij[1] \in lr.activeLineIds
          /\ lr.log.currentTime < Timing(lr, ij).startTimeMs
          /\ lr.syllables[ij[1]][ij[2]] = FreshSyllable
          /\ ArmedWith(lr, ij[1], Timing(lr, ij).nextSyllableInWord,
                       Timing(lr, ij).preHighlightDelayMs,
                       Timing(lr, ij).preHighlightDurationMs)

\* C19: every link nextSyllableInWord of a rendered line points to the
\* immediately following syllable, which belongs to the same word; the last
\* syllable of a word has no link.
C19_WordLocalLinks ==
    \A ij \in AllSyllables(lr) :
        LET next == Timing(lr, ij).nextSyllableInWord
        IN next # 0 =>
              /\ next = ij[2] + 1
              /\ Timing(lr, <<ij[1], next>>).word = Timing(lr, ij).word

\* C31: in every reachable state no syllable carries both the highlight
\* flag and the pre-highlight flag.
C31_HighlightExclusive ==
    \A ij \in AllSyllables(lr) :
        ~(lr.syllables[ij[1]][ij[2]].highlight /\ lr.syllables[ij[1]][ij[2]].preHighlight)

\* a syllable element that carries a highlight, finished or pre-highlight
\* flag
Flagged(e) == e.highlight \/ e.finished \/ e.preHighlight

\* C33: after every tick every syllable that carries a highlight, finished
\* or pre-highlight flag belongs to a line of the active set, and every
\* syllable of a line that has left the active set in this tick is back to
\* pending.
C33_HighlightImpliesActive ==
    [][lr'.log.isSync =>
          /\ \A ij \in AllSyllables(lr') :
                Flagged(lr'.syllables[ij[1]][ij[2]]) => ij[1] \in lr'.activeLineIds
          /\ \A ij \in AllSyllables(lr) :
                ij[1] \in lr.activeLineIds \ lr'.activeLineIds
                    => lr'.syllables[ij[1]][ij[2]] = FreshSyllable]_vars

\* C33 witness: after a tick the syllables of an active line carry the
\* three flags between them, and no syllable of another line carries any.
C33_Witness ==
    /\ AfterTick
    /\ \E ij \in AllSyllables(lr) :
          ij[1] \in lr.activeLineIds /\ lr.syllables[ij[1]][ij[2]].highlight
    /\ \E ij \in AllSyllables(lr) :
          ij[1] \in lr.activeLineIds /\ lr.syllables[ij[1]][ij[2]].finished
    /\ \E ij \in AllSyllables(lr) :
          ij[1] \in lr.activeLineIds /\ lr.syllables[ij[1]][ij[2]].preHighlight
    /\ \A ij \in AllSyllables(lr) :
          Flagged(lr.syllables[ij[1]][ij[2]]) => ij[1] \in lr.activeLineIds

\* the cached lines whose [start, end) contains t + 300, and those that
\* started at or before t - 300
ContainPredictiveTime(s, t) ==
    {i \in 1..Len(s.cachedLyricsLines) :
        LET line == s.cachedLyricsLines[i]
        IN line.hasTime /\ line.startTimeMs <= t + 300 /\ t + 300 < line.endTimeMs}

StartedBefore(s, t) ==
    {i \in 1..Len(s.cachedLyricsLines) :
        LET line == s.cachedLyricsLines[i]
        IN line.hasTime /\ line.startTimeMs <= t - 300}

\* cached line i is the scroll target the three rules select at time t
IsScrollTarget(s, t, i) ==
    LET lines == s.cachedLyricsLines
        P == ContainPredictiveTime(s, t)
        S == StartedBefore(s, t)
    IN IF P # {}
       THEN i \in P /\ \A k \in P : lines[i].startTimeMs <= lines[k].startTimeMs
       ELSE IF S # {}
       THEN i \in S /\ \A k \in S : lines[k].startTimeMs <= lines[i].startTimeMs
       ELSE i = 1

\* C7: the scroll target of every tick on a non-empty timeline is the line
\* the three rules select among all cached lines, and a tick in any other
\* state of the visible set selects the same line.
C7_ScrollTarget ==
    /\ (AfterTick /\ Len(lr.cachedLyricsLines) > 0) =>
           \E i \in 1..Len(lr.cachedLyricsLines) :
               /\ lr.log.lineToScroll = lr.cachedLyricsLines[i].ref
               /\ IsScrollTarget(lr, lr.log.currentTime, i)
    /\ lr.lyricsAnimationFrameId =>
           \A t \in Times :
               \A w \in Windows(Len(lr.cachedLyricsLines), {ViewportLines}) :
                   Sync([lr EXCEPT !.visibleLineIds = w], t).log.lineToScroll
                       = Sync(lr, t).log.lineToScroll

\* C7 witness: no line contains t + 300, and the tick has selected the most
\* recently started line although no line is visible.
C7_Witness ==
    /\ AfterTick
    /\ lr.visibleLineIds = {}
    /\ ContainPredictiveTime(lr, lr.log.currentTime) = {}
    /\ \E i \in StartedBefore(lr, lr.log.currentTime) :
          /\ i > 1
          /\ lr.log.lineToScroll = lr.cachedLyricsLines[i].ref
          /\ IsScrollTarget(lr, lr.log.currentTime, i)

\* the cached lines that are in the visible set
VisibleLineIndexes(s) ==
    {i \in 1..Len(s.cachedLyricsLines) : s.cachedLyricsLines[i].id \in s.visibleLineIds}

\* the half-open activation window [start - 190, end - 190)
InHalfOpenWindow(line, t) ==
    line.hasTime /\ line.startTimeMs - 190 <= t /\ t < line.endTimeMs - 190

\* C8 as stated: after a tick at t that finds at most 3 visible lines in
\* their windows, a visible line is active exactly when
\* start - 190 <= t < end - 190.
C8_ActivationWindow_AsStated ==
    AfterTick =>
        LET t == lr.log.currentTime
            matching == {i \in VisibleLineIndexes(lr) :
                            InHalfOpenWindow(lr.cachedLyricsLines[i], t)}
        IN Cardinality(matching) <= 3 =>
              \A i \in VisibleLineIndexes(lr) :
                  lr.cachedLyricsLines[i].id \in lr.activeLineIds <=> i \in matching

\* the closed activation window [start - 190, end - 190]
InClosedWindow(line, t) ==
    line.hasTime /\ line.startTimeMs - 190 <= t /\ t <= line.endTimeMs - 190

\* C8 amended: after a tick at t that finds at most 3 visible lines in
\* their windows, a visible line is active exactly when
\* start - 190 <= t <= end - 190; at t = end - 190 it is still active.
C8_ActivationWindow ==
    AfterTick =>
        LET t == lr.log.currentTime
            matching == {i \in VisibleLineIndexes(lr) :
                            InClosedWindow(lr.cachedLyricsLines[i], t)}
        IN Cardinality(matching) <= 3 =>
              \A i \in VisibleLineIndexes(lr) :
                  lr.cachedLyricsLines[i].id \in lr.activeLineIds <=> i \in matching

\* C8 witness: a tick at t = end - 190 of a visible line has left that line
\* active, with at most 3 visible lines in their windows.
C8_Witness ==
    /\ AfterTick
    /\ Cardinality({i \in VisibleLineIndexes(lr) :
                       InClosedWindow(lr.cachedLyricsLines[i], lr.log.currentTime)}) <= 3
    /\ \E i \in VisibleLineIndexes(lr) :
          /\ lr.cachedLyricsLines[i].hasTime
          /\ lr.log.currentTime = lr.cachedLyricsLines[i].endTimeMs - 190
          /\ lr.cachedLyricsLines[i].id \in lr.activeLineIds

\* the positions in the list of visible lines the tick scanned that are in
\* their activation window at t
MatchingPositions(s, t) ==
    {k \in 1..Len(s.cachedVisibleLines.lines) :
        InHighlightWindow(s.cachedVisibleLines.lines[k], t)}

\* C9: after every tick at most 3 lines are active, all of them are in the
\* visible set, and when more than 3 visible lines are in their window the
\* active ones are the first 3 of them in timeline order.
C9_BoundedActivation ==
    AfterTick =>
        LET M == MatchingPositions(lr, lr.log.currentTime)
            firstThree == {k \in M : Cardinality({m \in M : m < k}) < 3}
        IN /\ Cardinality(lr.activeLineIds) <= 3
           /\ lr.activeLineIds \subseteq lr.visibleLineIds
           /\ Cardinality(M) > 3 =>
                 lr.activeLineIds = {lr.cachedVisibleLines.lines[k].id : k \in firstThree}

\* C9 witness: four visible lines are in their window and three are active.
C9_Witness ==
    /\ AfterTick
    /\ Cardinality(MatchingPositions(lr, lr.log.currentTime)) > 3
    /\ Cardinality(lr.activeLineIds) = 3

(***************************************************************************)
(* LiveScroll: the gestures and timers of SpecScroll before the            *)
(* IntersectionObserver has reported any line, with one clock reading on   *)
(* each side of a seek; a pending revert timer eventually fires            *)
(* (setTimeout callbacks are always delivered).                            *)
(***************************************************************************)
LiveTimes == {1500, 10000}

NextLive ==
    \/ DisplayLyrics(ScrollSongs, LiveTimes, 1)
    \/ RenderTimerFires(LiveTimes)
    \/ CleanupLyrics
    \/ Tick(LiveTimes)
    \/ Wheel
    \/ IdleTimerFires
    \/ RevertTimerFires
    \/ TouchStart
    \/ TouchMove
    \/ TouchEnd
    \/ MomentumFrame
    \/ TouchCancel

LiveScroll == Init /\ [][NextLive]_vars /\ WF_vars(RevertTimerFires)

\* a step of one of the manual scroll inputs
ManualScrollInput == Wheel \/ TouchMove \/ MomentumFrame

\* C4: every manual scroll input leaves the flag set and the one revert
\* timer pending with its full 4 s; the flag is never set without that timer
\* pending; the expiry clears the flag and scrolls to the current primary
\* line; and a set flag is always eventually cleared.
C4_UserScrollRevert ==
    /\ [](lr.isUserControllingScroll => lr.userScrollRevertTimer = RevertDelayMs)
    /\ [][ManualScrollInput =>
             lr'.isUserControllingScroll /\ lr'.userScrollRevertTimer = 4000]_vars
    /\ [][RevertTimerFires =>
             /\ ~lr'.isUserControllingScroll
             /\ lr'.userScrollRevertTimer = 0
             /\ lr.currentPrimaryActiveLine # NoLine =>
                   /\ lr'.currentPrimaryActiveLine = lr.currentPrimaryActiveLine
                   /\ lr'.currentScrollOffset =
                          ScrollPaddingTop - OffsetTop(lr, lr.currentPrimaryActiveLine)]_vars
    /\ (lr.isUserControllingScroll ~> ~lr.isUserControllingScroll)

\* C4 witness: the revert timer has expired after a manual scroll that moved
\* the lyrics off the primary line, and the lyrics are back on it under
\* automatic control.
C4_Witness ==
    /\ lr.log.revert = "moved"
    /\ lr.userScrollRevertTimer = 0
    /\ ~lr.isUserControllingScroll
    /\ lr.currentPrimaryActiveLine # NoLine
    /\ lr.currentScrollOffset = ScrollPaddingTop - OffsetTop(lr, lr.currentPrimaryActiveLine)

\* the scroll target for the clock reading of the most recent tick
CurrentTarget(s) ==
    IF Len(s.cachedLyricsLines) = 0 THEN NoLine
    ELSE s.cachedLyricsLines[LineToScroll(s.cachedLyricsLines, s.lastTime)].ref

\* a step in which the revert timer fires and finds a primary line
RevertResyncs ==
    /\ lr.userScrollRevertTimer # 0
    /\ lr'.log.revert # "none"
    /\ lr.currentPrimaryActiveLine # NoLine

\* C34 as stated: when the revert timer fires, the line the forced resync
\* scrolls to is the scroll target for the current clock time.
C34_RevertTarget_AsStated ==
    [][RevertResyncs =>
          /\ lr.currentPrimaryActiveLine = CurrentTarget(lr)
          /\ lr'.currentScrollOffset =
                 ScrollPaddingTop - OffsetTop(lr, CurrentTarget(lr))]_vars

\* C34 amended: when the revert timer fires, the forced resync scrolls to
\* currentPrimaryActiveLine, the target of the last tick that scrolled; the
\* tick that follows makes the scroll target for its clock time the primary
\* line and scrolls to it.
C34_RevertTarget ==
    [][/\ RevertResyncs =>
             /\ lr'.currentPrimaryActiveLine = lr.currentPrimaryActiveLine
             /\ lr'.currentScrollOffset =
                    ScrollPaddingTop - OffsetTop(lr, lr.currentPrimaryActiveLine)
       /\ (lr.log.revert # "none" /\ lr'.log.isSync /\ lr'.log.lineToScroll # NoLine) =>
             /\ lr'.currentPrimaryActiveLine = lr'.log.lineToScroll
             /\ lr'.currentScrollOffset =
                    ScrollPaddingTop - OffsetTop(lr', lr'.log.lineToScroll)]_vars

\* C34 witness: the revert timer has fired and the lyrics are back on the
\* primary line, which is not the scroll target for the clock reading of
\* the most recent tick.
C34_Witness ==
    /\ lr.log.revert = "moved"
    /\ lr.currentPrimaryActiveLine # NoLine
    /\ lr.currentPrimaryActiveLine # CurrentTarget(lr)
    /\ lr.currentScrollOffset = ScrollPaddingTop - OffsetTop(lr, lr.currentPrimaryActiveLine)
    /\ lr.currentScrollOffset # ScrollPaddingTop - OffsetTop(lr, CurrentTarget(lr))

\* C20: while isUserControllingScroll is set, a tick that is not a seek
\* leaves currentScrollOffset, the line delays and currentPrimaryActiveLine
\* unchanged.
C20_UserOverride ==
    [][(lr'.log.isSync /\ ~lr'.log.isForceScroll /\ lr.isUserControllingScroll) =>
          /\ lr'.currentScrollOffset = lr.currentScrollOffset
          /\ lr'.lineDelay = lr.lineDelay
          /\ lr'.currentPrimaryActiveLine = lr.currentPrimaryActiveLine]_vars

\* C20 witness: after the user has scrolled, a tick that is not a seek has
\* computed a scroll target other than the primary line and has left the
\* user's scroll offset in place.
C20_Witness ==
    /\ AfterTick
    /\ ~lr.log.isForceScroll
    /\ lr.isUserControllingScroll
    /\ lr.log.lineToScroll # NoLine
    /\ lr.log.lineToScroll # lr.currentPrimaryActiveLine
    /\ lr.currentPrimaryActiveLine # NoLine
    /\ lr.currentScrollOffset # ScrollPaddingTop - OffsetTop(lr, lr.currentPrimaryActiveLine)

\* a tick step whose scroll decision (lines 1681-1682) calls
\* _updatePositionClassesAndScroll
TickScrolls ==
    /\ lr'.log.isSync
    /\ lr'.log.lineToScroll # NoLine
    /\ lr'.log.lineToScroll # lr.currentPrimaryActiveLine \/ lr'.log.isForceScroll
    /\ ~lr.isUserControllingScroll \/ lr'.log.isForceScroll

\* C22 as stated: the scroll performed in a tick finds the renderer holding
\* the active-line set computed in that same tick.
C22_TickOrder_AsStated ==
    [][TickScrolls => lr'.log.activeAtScroll = "fresh"]_vars

\* C22 amended: the scroll decision of a tick is taken before the tick
\* applies its active-line set: it finds the renderer holding the set of
\* the previous tick, which is the set of this tick only when the tick does
\* not change it.
C22_TickOrder ==
    [][TickScrolls =>
          lr'.log.activeAtScroll =
              IF lr.activeLineIds = lr'.activeLineIds THEN "fresh" ELSE "stale"]_vars

\* C22 witness: a tick has scrolled to a new primary line while the
\* renderer still held another active-line set than the one it then applied.
C22_Witness ==
    /\ AfterTick
    /\ lr.log.activeAtScroll = "stale"
    /\ lr.activeLineIds # {}
    /\ lr.log.lineToScroll = lr.currentPrimaryActiveLine
    /\ lr.lastPrimaryActiveLine # lr.currentPrimaryActiveLine
    /\ lr.currentScrollOffset = ScrollPaddingTop - OffsetTop(lr, lr.currentPrimaryActiveLine)

\* what a tick step does when it treats its clock reading as a seek: the
\* scroll target becomes the primary line, automatic control is back, and
\* the scroll offset puts the target at the top padding
ResyncsScroll ==
    lr'.log.lineToScroll # NoLine =>
        /\ lr'.currentPrimaryActiveLine = lr'.log.lineToScroll
        /\ ~lr'.isUserControllingScroll
        /\ lr'.currentScrollOffset = ScrollPaddingTop - OffsetTop(lr', lr'.log.lineToScroll)

\* C23 as stated: a tick whose clock reading is lower than the previous
\* one, or more than 1000 ms higher, is treated as a seek and resyncs the
\* scroll.
C23_ClockAnomalies_AsStated ==
    [][(/\ lr'.log.isSync
        /\ \/ lr'.log.currentTime < lr.lastTime
           \/ lr'.log.currentTime > lr.lastTime + SeekThresholdMs)
       => lr'.log.isForceScroll /\ ResyncsScroll]_vars

\* C23 amended: a tick is treated as a seek exactly when its clock reading
\* is more than 1000 ms away from the previous one, in either direction; a
\* seek resyncs the scroll; every tick schedules the next one.
C23_ClockAnomalies ==
    [][lr'.log.isSync =>
          /\ lr'.log.isForceScroll
                <=> Abs(lr'.log.currentTime - lr.lastTime) > SeekThresholdMs
          /\ lr'.log.isForceScroll /\ Len(lr.cachedLyricsLines) > 0 => ResyncsScroll
          /\ lr'.lyricsAnimationFrameId
          /\ lr'.lastTime = lr'.log.currentTime]_vars

\* C23 witness: a tick has read clock 0 more than 1000 ms after the
\* previous reading, was treated as a seek and has put the first line at
\* the top padding.
C23_Witness ==
    /\ AfterTick
    /\ lr.log.isForceScroll
    /\ lr.log.currentTime = 0
    /\ lr.log.lineToScroll # NoLine
    /\ lr.currentPrimaryActiveLine = lr.log.lineToScroll
    /\ lr.currentScrollOffset = ScrollPaddingTop - OffsetTop(lr, lr.log.lineToScroll)

\* a step that renders lyrics: displayLyrics on a container without the
\* loading message, or the delayed render of displayLyrics
RenderStep ==
    \/ ~lr.message /\ budget'.renders > budget.renders
    \/ Len(lr'.renderTimers) < Len(lr.renderTimers)

\* C25: at most one sync callback is scheduled at any moment and the
\* renderer holds its handle; cleanupLyrics leaves none scheduled; every
\* render leaves exactly one scheduled; only a render schedules one when
\* none was; a tick runs only as the scheduled callback.
C25_TickLoopLifecycle ==
    [][/\ lr'.syncFrames <= 1
       /\ lr'.syncFrames = 1 <=> lr'.lyricsAnimationFrameId
       /\ CleanupLyrics => lr'.syncFrames = 0
       /\ RenderStep => lr'.syncFrames = 1
       /\ lr.syncFrames = 0 /\ lr'.syncFrames > 0 => RenderStep
       /\ lr'.log.isSync => lr.syncFrames = 1 /\ lr'.syncFrames = 1]_vars

\* C25 witness: a tick has run on the lines of the last of several
\* renders, and one callback is scheduled.
C25_Witness ==
    /\ AfterTick
    /\ budget.renders = MaxRenders
    /\ lr.renderTimers = <<>>
    /\ ~lr.message
    /\ Len(lr.cachedLyricsLines) > 0
    /\ lr.syncFrames = 1

\* C26: after every tick, each line object of the cached visible-line list,
\* on which the tick has evaluated activation, is one of the line objects of
\* the current render.
C26_WholesaleInvalidation ==
    AfterTick =>
        \A k \in 1..Len(lr.cachedVisibleLines.lines) :
            \E i \in 1..Len(lr.cachedLyricsLines) :
                lr.cachedLyricsLines[i] = lr.cachedVisibleLines.lines[k]

\* the lines of the current render whose id is in the active set
ActiveLines == {i \in 1..Len(lr.cachedLyricsLines) :
                   lr.cachedLyricsLines[i].id \in lr.activeLineIds}

\* C27: after every tick the fullscreen-focused line is a line of the
\* current render that is active and starts no earlier than any other
\* active line, or there is none when no line is active.
C27_FocusedLine ==
    AfterTick =>
        IF ActiveLines = {} THEN lr.currentFullscreenFocusedLine = NoLine
        ELSE \E i \in ActiveLines :
                /\ lr.currentFullscreenFocusedLine = lr.cachedLyricsLines[i].ref
                /\ \A j \in ActiveLines : lr.cachedLyricsLines[i].startTimeMs
                                              >= lr.cachedLyricsLines[j].startTimeMs

\* C24: whenever a gesture starts (a wheel event or a touch start), a
\* running momentum-scroll loop is cancelled, so that no momentum frame of
\* an earlier gesture fires after it.
C24_NewGestureReplacesTimers ==
    [][Wheel \/ TouchStart => ~lr'.touchState.momentum]_vars

\* The reference line of a scroll made in this step (lines 2037-2043): the
\* primary line the step started with, else the last primary line, else the
\* first line; 0 when it is no element of the current render.
ReferenceIndex ==
    IndexOfLine(lr.cachedLyricsLines,
                IF lr.currentPrimaryActiveLine # NoLine THEN lr.currentPrimaryActiveLine
                ELSE IF lr.lastPrimaryActiveLine # NoLine THEN lr.lastPrimaryActiveLine
                ELSE IF Len(lr.cachedLyricsLines) > 0 THEN lr.cachedLyricsLines[1].ref
                ELSE NoLine)

\* a step of a tick or of the revert timer that moved the scroll offset while
\* no seek was detected: a scroll that is neither a seek nor a user gesture
AutomaticScrollStep ==
    /\ lr'.log.isSync \/ lr'.log.revert = "moved"
    /\ ~lr'.log.isForceScroll
    /\ lr'.currentScrollOffset # lr.currentScrollOffset

IsVisibleLine(i) == lr.cachedLyricsLines[i].id \in lr.visibleLineIds

\* C21 as stated: after such a scroll a line outside the visible set or
\* before the reference line has delay 0, and a visible line at or after the
\* reference line has 30 ms times its distance from the reference line.
C21_StaggerDelays_AsStated ==
    [][(AutomaticScrollStep /\ ReferenceIndex # 0) =>
          \A i \in 1..Len(lr.cachedLyricsLines) :
              lr'.lineDelay[i] = IF IsVisibleLine(i) /\ i >= ReferenceIndex
                                 THEN DelayIncrement * (i - ReferenceIndex)
                                 ELSE 0]_vars

\* the visible lines from the reference line up to, not including, line i
VisibleFromReference(i) == {k \in ReferenceIndex..(i - 1) : IsVisibleLine(k)}

\* C21 amended: after such a scroll a line outside the visible set or before
\* the reference line has delay 0, and a visible line at or after the
\* reference line has 30 ms times the number of visible lines between the
\* reference line (included) and itself (excluded); when the reference line
\* is an element of an earlier render, the delays stay as they were.
C21_StaggerDelays ==
    [][AutomaticScrollStep =>
          IF ReferenceIndex = 0 THEN lr'.lineDelay = lr.lineDelay
          ELSE \A i \in 1..Len(lr.cachedLyricsLines) :
                  lr'.lineDelay[i] =
                      IF IsVisibleLine(i) /\ i >= ReferenceIndex
                      THEN DelayIncrement * Cardinality(VisibleFromReference(i))
                      ELSE 0]_vars

\* C21 witness: a tick has scrolled to its target and left staggered delays
\* of 0, 30 and 60 ms on visible lines.
C21_Witness ==
    /\ AfterTick
    /\ ~lr.log.isForceScroll
    /\ lr.log.lineToScroll = lr.currentPrimaryActiveLine
    /\ lr.currentPrimaryActiveLine # NoLine
    /\ lr.currentScrollOffset = ScrollPaddingTop - OffsetTop(lr, lr.currentPrimaryActiveLine)
    /\ \E i \in 1..(Len(lr.cachedLyricsLines) - 2) :
          /\ {lr.cachedLyricsLines[k].id : k \in i..(i + 2)} \subseteq lr.visibleLineIds
          /\ lr.lineDelay[i] = 0
          /\ lr.lineDelay[i + 1] = DelayIncrement
          /\ lr.lineDelay[i + 2] = 2 * DelayIncrement

(***************************************************************************)
(* SpecRetime: lines are rendered one by one, ordered by start, then       *)
(* corrected once.                                                         *)
(***************************************************************************)
MaxRetimeLines == 3

\* Times the rendered lines carry, in fifths of a millisecond: 0, 1 ms, 2 ms,
\* 6.2 ms, 6.4 ms, 7 ms, 11.8 ms, 520 ms and 8 s.  They realise overlaps
\* below, at and above 5 ms, gaps below, at and above 1 ms, above 500 ms and
\* above 7 s, and times that toFixed(3) rounds down and up.
RtTimes == {0, Ms(1), Ms(2), 31, 32, Ms(7), 59, Ms(520), Ms(8000)}

RtInit ==
    /\ rtIn = <<>>
    /\ rtOut = <<>>
    /\ rtPhase = "render"
    /\ lr = Constructed
    /\ budget = [renders |-> 0, inputs |-> 0]
    /\ lm = ManagerLoaded

\* lines 577-582: one more line element, its dataset times from the lyrics data
RtRenderLine ==
    /\ rtPhase = "render"
    /\ Len(rtIn) < MaxRetimeLines
    /\ \E st \in RtTimes, en \in RtTimes :
        /\ st <= en
        /\ Len(rtIn) > 0 => rtIn[Len(rtIn)].startTime <= st
        /\ rtIn' = Append(rtIn, [startTime |-> st, endTime |-> en])
    /\ UNCHANGED <<rtOut, rtPhase, lr, budget, lm>>

\* line 1140: this._retimingActiveTimings(originalLines)
RtCall ==
    /\ rtPhase = "render"
    /\ \E ov \in SUBSET OverlapTies(rtIn) :
        \E wr \in SUBSET WriteTies(rtIn, ov) :
            rtOut' = RetimingActiveTimings(rtIn, [overlap |-> ov, write |-> wr])
    /\ rtPhase' = "done"
    /\ UNCHANGED <<rtIn, lr, budget, lm>>

RtNext == RtRenderLine \/ RtCall

SpecRetime == RtInit /\ [][RtNext]_vars


(***************************************************************************)
(* SpecDegenerate: the degenerate inputs.  A render of at most one lyric    *)
(* line calls the timing correction; song 1 is played and cleaned up, and   *)
(* _updateLyricsHighlight is called while the timeline is empty, which the  *)
(* loop itself never does, a render leaving at least the metadata and the   *)
(* padding element.                                                        *)
(***************************************************************************)
DgTimes == {0, 1500}

DgInit == RtInit

\* lines 577-582, for a song of one line
DgRenderLine ==
    /\ Len(rtIn) = 0
    /\ RtRenderLine

\* _updateLyricsHighlight (1599) called with an empty cachedLyricsLines
HighlightOnEmpty(times) ==
    /\ Len(lr.cachedLyricsLines) = 0
    /\ \E currentTime \in times, isForceScroll \in BOOLEAN :
          lr' = UpdateLyricsHighlight(
                    [lr EXCEPT !.log = [isSync |-> TRUE, currentTime |-> currentTime,
                                        isForceScroll |-> isForceScroll,
                                        lineToScroll |-> NoLine, animationStarts |-> {},
                                        revert |-> "none", activeAtScroll |-> "none"]],
                    currentTime, isForceScroll)
    /\ UNCHANGED <<budget, rtVars, lm>>

DgNext ==
    \/ DgRenderLine
    \/ RtCall
    \/ DisplayLyrics({1}, DgTimes, 1)
    \/ RenderTimerFires(DgTimes)
    \/ CleanupLyrics
    \/ Tick(DgTimes)
    \/ VisibilityChange({ViewportLines})
    \/ HighlightOnEmpty(DgTimes)

SpecDegenerate == DgInit /\ [][DgNext]_vars

\* C28: the timing correction called on fewer than 2 lines leaves the
\* lines as they were, and _updateLyricsHighlight called on an empty
\* timeline leaves the whole renderer state as it was.
C28_DegenerateNoOps ==
    [][/\ rtPhase = "render" /\ rtPhase' = "done" /\ Len(rtIn) < 2 => rtOut' = rtIn
       /\ lr'.log.isSync /\ Len(lr.cachedLyricsLines) = 0
             => lr' = [lr EXCEPT !.log = lr'.log]]_vars

\* C28 witness: the timing correction has returned on a single line whose
\* end it has kept, and the highlight update has returned on the empty
\* timeline left by a cleanup that followed playback.
C28_Witness ==
    /\ rtPhase = "done"
    /\ Len(rtIn) = 1
    /\ rtOut = rtIn
    /\ rtIn[1].startTime < rtIn[1].endTime
    /\ AfterTick
    /\ Len(lr.cachedLyricsLines) = 0
    /\ lr.lastPrimaryActiveLine # NoLine
    /\ lr.activeLineIds = {}
    /\ lr.currentScrollOffset = 0

(***************************************************************************)
(* SpecPlayback: normal playback of song 3, whose lines do not overlap and  *)
(* whose last line lasts 100 ms: the clock read by a tick is never lower    *)
(* than the previous reading and at most 1000 ms higher.                    *)
(***************************************************************************)
PlaybackSongs == {3}
PlaybackTimes == {0, 750, 1000, 1500}

\* one animation frame (1572-1578) while the video plays on
PlaybackTick(times) ==
    /\ lr.syncFrames > 0
    /\ \E currentTime \in times :
          /\ currentTime >= lr.lastTime
          /\ currentTime - lr.lastTime <= SeekThresholdMs
          /\ lr' = Sync(lr, currentTime)
    /\ UNCHANGED <<budget, rtVars, lm>>

PlaybackNext ==
    \/ DisplayLyrics(PlaybackSongs, PlaybackTimes, MaxRenders)
    \/ RenderTimerFires(PlaybackTimes)
    \/ CleanupLyrics
    \/ PlaybackTick(PlaybackTimes)
    \/ VisibilityChange({ViewportLines})

SpecPlayback == Init /\ [][PlaybackNext]_vars

\* the lines with times are ordered by start and none starts before the
\* one before it has ended
NonOverlapping(lines) ==
    \A i, k \in 1..Len(lines) :
        i < k /\ lines[i].hasTime /\ lines[k].hasTime
            => lines[i].startTimeMs <= lines[i].endTimeMs
               /\ lines[i].endTimeMs <= lines[k].startTimeMs

\* C32: on a timeline of non-overlapping lines ordered by start, between
\* two consecutive ticks whose clock does not decrease and rises by at most
\* 1000 ms, the index of the scroll target does not decrease.
C32_TargetNeverBackward ==
    [][(/\ lr.log.isSync /\ lr'.log.isSync
        /\ NonOverlapping(lr.cachedLyricsLines)
        /\ lr'.log.currentTime >= lr.log.currentTime
        /\ lr'.log.currentTime - lr.log.currentTime <= SeekThresholdMs)
       => IndexOfLine(lr'.cachedLyricsLines, lr'.log.lineToScroll)
             >= IndexOfLine(lr.cachedLyricsLines, lr.log.lineToScroll)]_vars

(***************************************************************************)
(* SpecFlush: the pre-highlight derivation of flushWordBuffer (730-760) on *)
(* a line of two syllables.  The first syllable's measured width and       *)
(* duration are drawn from PhWidths and PhDurations; the second syllable   *)
(* is in the same word (linked at 745-760) or opens the next word (linked  *)
(* as pendingSyllable at 730-743).  rtIn holds the syllabus, rtOut the     *)
(* syllable elements, rtPhase is "word" before and "flushed" after.        *)
(***************************************************************************)
\* measured widths in pixels: 0, below, at and just above the 0.75 em
\* gradient (12 px at an em of 16 px), and wide text
PhWidths == {0, 8, 12, 13, 18, 100}

\* syllable durations in milliseconds
PhDurations == {0, 1, 2, 3, 500, 1000}

FlushInit ==
    /\ \E w \in PhWidths, d \in PhDurations, word \in {1, 2} :
          rtIn = << [time |-> 0, duration |-> d, widthPx |-> w, word |-> 1],
                    [time |-> d, duration |-> 300, widthPx |-> 24, word |-> word] >>
    /\ rtOut = <<>>
    /\ rtPhase = "word"
    /\ lr = Constructed
    /\ budget = [renders |-> 0, inputs |-> 0]
    /\ lm = ManagerLoaded

\* lines 730-760: the syllables of the line are linked and given their
\* pre-highlight delay and duration
FlushWordBuffer ==
    /\ rtPhase = "word"
    /\ rtOut' = SyllableElements(rtIn)
    /\ rtPhase' = "flushed"
    /\ UNCHANGED <<rtIn, lr, budget, lm>>

FlushNext == FlushWordBuffer

SpecFlush == FlushInit /\ [][FlushNext]_vars

MaxFetches == 2
FetchTimes == {0, 1500}

FetchNext ==
    \/ FetchAndDisplayLyrics(AllSongs, MaxFetches)
    \/ DebounceTimerFires
    \/ FetchResponse(FetchTimes)
    \/ RenderTimerFires(FetchTimes)
    \/ Tick(FetchTimes)
    \/ VisibilityChange({ViewportLines})

SpecFetch == Init /\ [][FetchNext]_vars

\* C29: a call that displays lyrics or the not-found text does so for the
\* song requested last: when its response arrives after a call for another
\* videoId has started, it returns without either.
C29_StaleFetchDiscarded ==
    lm.log.outcome \in {"display", "notFound"}
        => lm.log.videoId = lm.currentFetchVideoId

\* C30: cleanupLyrics and displaySongNotFound leave no delayed render of an
\* earlier displayLyrics call pending, so that none fires afterwards.
C30_NoStaleRender ==
    [][(\/ lm'.started > lm.started
        \/ lm' # lm /\ lm'.log.outcome = "notFound")
       => lr'.renderTimers = <<>>]_vars

(***************************************************************************)
(* Claims about the timing correction (SpecRetime)                         *)
(***************************************************************************)
RtDone == rtPhase = "done" /\ Len(rtIn) >= 2

\* A gap of at least 5 ms between line i's original end and line i+1's start
GapAtLeast5ms(i) == rtIn[i + 1].startTime - rtIn[i].endTime >= Ms(5)

IsWrittenEnd(out, new, orig) ==
    IF Abs(new - orig) > WriteThreshold THEN out = ToFixed3(new)
    ELSE IF Abs(new - orig) < WriteThreshold THEN out = orig
    ELSE out \in {ToFixed3(new), orig}

\* the lines A of the input for which the precursor rule's condition holds
PrecursorLines == {i \in 1..Len(rtIn) : IsHandledByPrecursorPass(rtIn, i)}

\* C13 as stated: for consecutive A, B, C with B.start < A.end, C.start < B.end
\* and C.start >= A.end (original ends), A's corrected end equals C.start.
C13_PrecursorRule_AsStated ==
    RtDone => \A i \in PrecursorLines : rtOut[i].endTime = rtIn[i + 2].startTime

\* C13 amended: for such A, B, C the passes compute C.start as A's end, and
\* the trailing pass does not change it; A's written end is C.start rounded
\* to the millisecond when C.start is more than 1 ms after A's original
\* end, and A's original end when it is less than 1 ms after it.
C13_PrecursorRule ==
    RtDone => \A i \in PrecursorLines :
                 /\ rtOut[i].newEndTime = rtIn[i + 2].startTime
                 /\ IsWrittenEnd(rtOut[i].endTime, rtIn[i + 2].startTime, rtIn[i].endTime)

\* C13 witness: a corrected sequence in which A overlaps B by at least 5 ms,
\* B overlaps C, and A's end was moved to C's start.
C13_Witness ==
    /\ RtDone
    /\ \A k \in 1..Len(rtIn) : rtIn[k].startTime < rtIn[k].endTime
    /\ \E i \in PrecursorLines :
          /\ rtIn[i].endTime - rtIn[i + 1].startTime > OverlapThreshold
          /\ rtOut[i].endTime = rtIn[i + 2].startTime
          /\ rtOut[i].endTime # rtIn[i].endTime
          /\ rtOut[i].endTime # rtOut[i + 1].endTime

\* every input line has its start before its end
WellFormedInput == \A k \in 1..Len(rtIn) : rtIn[k].startTime < rtIn[k].endTime

\* the lines the precursor rule did not handle whose successor starts before
\* their original end, and the overlap measured against the original end
TrailingOverlapLines ==
    {i \in 1..(Len(rtIn) - 1) :
        ~IsHandledByPrecursorPass(rtIn, i) /\ rtIn[i + 1].startTime < rtIn[i].endTime}
OverlapOf(i) == rtIn[i].endTime - rtIn[i + 1].startTime

\* C14 as stated: such a line's corrected end is its successor's final
\* corrected end when the overlap is at least 5 ms and its original end when
\* the overlap is below 5 ms.
C14_TrailingOverlap_AsStated ==
    RtDone => \A i \in TrailingOverlapLines :
                 IF OverlapOf(i) >= OverlapThreshold
                 THEN rtOut[i].endTime = rtOut[i + 1].endTime
                 ELSE rtOut[i].endTime = rtIn[i].endTime

\* C14 amended: when the overlap is more than 5 ms the passes compute for
\* such a line the end they computed for its successor, and its written end
\* is that end rounded to the millisecond when it is more than 1 ms away
\* from the original end and the original end when it is less than 1 ms
\* away; when the overlap is less than 5 ms the end stays at the original;
\* at exactly 5 ms either of the two happens.
C14_TrailingOverlap ==
    RtDone => \A i \in TrailingOverlapLines :
                 LET extended ==
                         /\ rtOut[i].newEndTime = rtOut[i + 1].newEndTime
                         /\ IsWrittenEnd(rtOut[i].endTime, rtOut[i + 1].newEndTime,
                                         rtIn[i].endTime)
                     kept ==
                         /\ rtOut[i].newEndTime = rtIn[i].endTime
                         /\ rtOut[i].endTime = rtIn[i].endTime
                 IN IF OverlapOf(i) > OverlapThreshold THEN extended
                    ELSE IF OverlapOf(i) < OverlapThreshold THEN kept
                    ELSE extended \/ kept

\* C14 witness: a line overlapping its successor by more than 5 ms has
\* received the end the successor was itself corrected to.
C14_Witness ==
    /\ RtDone
    /\ WellFormedInput
    /\ \E i \in TrailingOverlapLines :
          /\ OverlapOf(i) > OverlapThreshold
          /\ rtOut[i].endTime = rtOut[i + 1].endTime
          /\ rtOut[i].endTime # rtIn[i].endTime
          /\ rtOut[i].endTime # rtIn[i + 1].endTime

\* the lines whose successor starts at or after their original end, and the
\* gap between the two
TrailingGapLines ==
    {i \in 1..(Len(rtIn) - 1) : rtIn[i + 1].startTime >= rtIn[i].endTime}
GapOf(i) == rtIn[i + 1].startTime - rtIn[i].endTime

\* C15 as stated: with a positive gap and no gap line after it such a line's
\* corrected end is its original end plus min(500 ms, gap), never later than
\* the successor's start; followed by a gap line its end is unchanged.
C15_TrailingGap_AsStated ==
    RtDone => \A i \in TrailingGapLines :
                 IF IsFollowedByManualGap(rtIn, i)
                 THEN rtOut[i].endTime = rtIn[i].endTime
                 ELSE GapOf(i) > 0 =>
                        /\ rtOut[i].endTime = rtIn[i].endTime + Min(MaxGapExtension, GapOf(i))
                        /\ rtOut[i].endTime <= rtIn[i + 1].startTime

\* C15 amended: with a positive gap and no gap line after it the passes
\* compute the original end plus min(500 ms, gap), never later than the
\* successor's start, and the written end is that value rounded to the
\* millisecond when the extension is more than 1 ms and the original end
\* when it is less than 1 ms; followed by a gap line the end is unchanged.
C15_TrailingGap ==
    RtDone => \A i \in TrailingGapLines :
                 IF IsFollowedByManualGap(rtIn, i)
                 THEN /\ rtOut[i].newEndTime = rtIn[i].endTime
                      /\ rtOut[i].endTime = rtIn[i].endTime
                 ELSE GapOf(i) > 0 =>
                        /\ rtOut[i].newEndTime = rtIn[i].endTime + Min(MaxGapExtension, GapOf(i))
                        /\ rtOut[i].newEndTime <= rtIn[i + 1].startTime
                        /\ IsWrittenEnd(rtOut[i].endTime, rtOut[i].newEndTime, rtIn[i].endTime)

\* C15 witness: one line was extended into the gap after it, and another
\* one, followed by a gap line, kept its end.
C15_Witness ==
    /\ RtDone
    /\ \E i \in TrailingGapLines :
          /\ rtIn[i].startTime < rtIn[i].endTime
          /\ ~IsFollowedByManualGap(rtIn, i)
          /\ GapOf(i) > WriteThreshold
          /\ rtOut[i].endTime = rtIn[i].endTime + Min(MaxGapExtension, GapOf(i))
    /\ \E i \in TrailingGapLines :
          /\ rtIn[i].startTime < rtIn[i].endTime
          /\ IsFollowedByManualGap(rtIn, i)
          /\ rtOut[i].endTime = rtIn[i].endTime

\* C16 as stated: the call keeps the number and the order of the lines and
\* every line's start, and leaves in actualEndTime the line's end from
\* before the call.
C16_Frame_AsStated ==
    RtDone =>
        /\ Len(rtOut) = Len(rtIn)
        /\ \A i \in 1..Len(rtIn) :
              /\ rtOut[i].startTime = rtIn[i].startTime
              /\ rtOut[i].actualEndTime = rtIn[i].endTime

\* C16 amended: the same, with actualEndTime the end from before the call
\* rounded to the millisecond.
C16_Frame ==
    RtDone =>
        /\ Len(rtOut) = Len(rtIn)
        /\ \A i \in 1..Len(rtIn) :
              /\ rtOut[i].startTime = rtIn[i].startTime
              /\ rtOut[i].actualEndTime = ToFixed3(rtIn[i].endTime)

\* C16 witness: a line's end was rewritten, and its actualEndTime holds the
\* end it had before.
C16_Witness ==
    /\ RtDone
    /\ WellFormedInput
    /\ \E i \in 1..Len(rtIn) :
          /\ rtOut[i].endTime # rtIn[i].endTime
          /\ rtOut[i].actualEndTime = rtIn[i].endTime
          /\ rtOut[i].startTime = rtIn[i].startTime

\* every line of the corrected sequence has its start before its end
StartsBeforeEnds == \A i \in 1..Len(rtOut) : rtOut[i].startTime < rtOut[i].endTime

\* C17: when every input line has its start before its end, every corrected
\* line has its start before its end.
C17_StartBeforeEnd == (RtDone /\ WellFormedInput) => StartsBeforeEnds

\* C18: a line the precursor rule did not handle never ends earlier than its
\* original end (stated here for inputs whose lines all have their start
\* before their end).
C18_ClippingOnlyByPrecursor ==
    (RtDone /\ WellFormedInput) => \A i \in 1..Len(rtIn) :
                 ~IsHandledByPrecursorPass(rtIn, i) => rtOut[i].endTime >= rtIn[i].endTime

====
